---- MODULE Spec2Model ----
(***************************************************************************)
(* Model of the upwork-dna backend: the ingestion/scoring orchestrator     *)
(* (backend/orchestrator.py), the external-judgment persistence            *)
(* (backend/llm), and the request surface with its write permit, retry     *)
(* queue, run tracker and read cache (backend/main.py).                    *)
(*                                                                         *)
(* Text values are sequences of tokens (a token is a maximal digit run or  *)
(* a chunk of other characters); Python's None is the one-token sequence   *)
(* NoneStr.  Timestamps are integers, NoneTime standing for None.  Scores  *)
(* are carried in hundredths (0..10000 for the code's 0.00..100.00), which *)
(* is the precision the code rounds them to.                               *)
(***************************************************************************)
EXTENDS Integers, Sequences, FiniteSets, TLC

VARIABLES
    fs,              \* data_root: file path -> content id (0: no such file)
    ingested_files,  \* table ingested_files (IngestedFile rows, in insertion order)
    jobs_raw,        \* table jobs_raw (JobRaw rows)
    talent_raw,      \* table talent_raw (TalentRaw rows)
    keyword_recs,    \* tables keyword_metrics / keyword_recommendations, by keyword
    job_opps,        \* table job_opportunities (JobOpportunity rows)
    events,          \* table pipeline_events (PipelineEvent rows)
    utcnow,          \* datetime.utcnow(), in hours
    scan_result,     \* what the last scan_and_ingest call returned
    fs_touched,      \* a file was added, removed or modified since the last completed scan
    RUN_INGEST_TRACKER,            \* per-run debounce records, in dict order
    RUN_INGEST_RETRY_QUEUE,        \* queued payloads, in dict order
    BACKGROUND_REFRESH_IN_FLIGHT,  \* the single-flight flag of trigger_background_refresh
    refresh_threads, \* number of _worker threads of trigger_background_refresh alive
    retry_worker,    \* what ingest_retry_worker_loop has popped and is persisting
    clock,           \* time.time(), in seconds
    next_sid,        \* number of the next call of ingest_run
    last_return,     \* what the last call of ingest_run returned
    DB_WRITE_LOCK,   \* the write permit is taken
    db_pc,           \* where each caller of the Store is in its operation
    lock_acquired,   \* lock_acquired of each caller's _run_once
    READ_CACHE,      \* results of reads by cache key
    last_read,       \* what the last read through the cache returned
    last_success,    \* the result of the last query that succeeded, by cache key
    retry_call,      \* the call of run_with_retry in progress, and how it went so far
    fn_call,         \* the last call of a scoring or judging function: arguments, result
    scan_proc        \* where each running scan_and_ingest is, and what its session holds

storeVars == <<fs, ingested_files, jobs_raw, talent_raw, keyword_recs, job_opps,
               events, utcnow, scan_result, fs_touched>>

runVars == <<RUN_INGEST_TRACKER, RUN_INGEST_RETRY_QUEUE, BACKGROUND_REFRESH_IN_FLIGHT,
             refresh_threads, retry_worker, clock, next_sid, last_return>>

lockVars == <<DB_WRITE_LOCK, db_pc, lock_acquired>>

readVars == <<READ_CACHE, last_read, last_success>>

retryVars == <<retry_call>>

callVars == <<fn_call>>

scanVars == <<scan_proc>>

\* What the operations of the Store alone leave as it is.
nonStoreVars == <<runVars, lockVars, readVars, retryVars, callVars, scanVars>>

vars == <<storeVars, runVars, lockVars, readVars, retryVars, callVars, scanVars>>

----------------------------------------------------------------------------
(* Bounds of the model.                                                    *)

MaxClock == 100      \* the wall clock of the Store runs from 0 to here (hours)

----------------------------------------------------------------------------
(* Python values.                                                          *)

NoneStr == <<"<None>">>
NoneTime == 0 - 1
NoneInt == 0 - 1

Min(a, b) == IF a <= b THEN a ELSE b
Max(a, b) == IF a >= b THEN a ELSE b

\* A clamp that lets every value through.
ClampNothing(value, lower, upper) == value

\* orchestrator.clamp
clamp(value, lower, upper) == Max(lower, Min(upper, value))

\* The digit runs that occur in the inputs, with their values.
NumTable ==
    [t \in {"0", "2", "5", "8", "10", "15", "30", "45", "50", "80",
            "500", "600", "1200", "1500", "2500"} |->
        CASE t = "0" -> 0 [] t = "2" -> 2 [] t = "5" -> 5 [] t = "8" -> 8
          [] t = "10" -> 10 [] t = "15" -> 15 [] t = "30" -> 30
          [] t = "45" -> 45 [] t = "50" -> 50 [] t = "80" -> 80
          [] t = "500" -> 500 [] t = "600" -> 600 [] t = "1200" -> 1200
          [] t = "1500" -> 1500 [] t = "2500" -> 2500]

IsNum(t) == t \in DOMAIN NumTable

\* re.search(r"\d+", str(value)): the first digit run, NoneInt when there is none.
RECURSIVE FirstNumFrom(_, _)
FirstNumFrom(text, i) ==
    IF i > Len(text) THEN NoneInt
    ELSE IF IsNum(text[i]) THEN NumTable[text[i]]
    ELSE FirstNumFrom(text, i + 1)

parse_int_value(value) ==
    IF value = NoneStr THEN NoneInt ELSE FirstNumFrom(value, 1)

\* re.findall(r"(\d+(?:\.\d+)?)(k)?", text): every number, times 1000 when a
\* "k" follows it; the result is their mean (integer division).
RECURSIVE MoneyNumbers(_, _)
MoneyNumbers(text, i) ==
    IF i > Len(text) THEN <<>>
    ELSE IF IsNum(text[i])
         THEN IF i < Len(text) /\ text[i + 1] = "k"
              THEN <<NumTable[text[i]] * 1000>> \o MoneyNumbers(text, i + 2)
              ELSE <<NumTable[text[i]]>> \o MoneyNumbers(text, i + 1)
         ELSE MoneyNumbers(text, i + 1)

RECURSIVE SumSeq(_)
SumSeq(s) == IF s = <<>> THEN 0 ELSE Head(s) + SumSeq(Tail(s))

parse_money_value(value) ==
    IF value = NoneStr \/ value = <<>> THEN NoneInt
    ELSE LET numbers == MoneyNumbers(value, 1)
         IN IF numbers = <<>> THEN NoneInt ELSE SumSeq(numbers) \div Len(numbers)

\* str(value).strip().lower() in {"1", "true", "yes", "verified", ...}
parse_bool_value(value) ==
    value \in {<<"true">>, <<"True">>, <<"yes">>, <<"verified">>, <<"y">>}

\* pick_first: the first candidate column that is present and not empty.
RECURSIVE pick_first(_, _, _)
pick_first(record, candidates, default) ==
    IF candidates = <<>> THEN default
    ELSE IF Head(candidates) \in DOMAIN record
            /\ record[Head(candidates)] \notin {NoneStr, <<>>, <<"nan">>, <<"None">>}
         THEN record[Head(candidates)]
         ELSE pick_first(record, Tail(candidates), default)

\* normalize_text on a scalar: None becomes the empty string.
normalize_text(value) == IF value = NoneStr THEN <<>> ELSE value

\* str.strip(): leading and trailing blank tokens removed.
RECURSIVE lstrip(_)
lstrip(text) ==
    IF text # <<>> /\ Head(text) = " " THEN lstrip(Tail(text)) ELSE text

RECURSIVE rstrip(_)
rstrip(text) ==
    IF text # <<>> /\ text[Len(text)] = " "
    THEN rstrip(SubSeq(text, 1, Len(text) - 1)) ELSE text

strip(text) == rstrip(lstrip(text))

\* x or y, on text
OrElse(text, other) == IF text = <<>> \/ text = NoneStr THEN other ELSE text

----------------------------------------------------------------------------
(* Normalizer: column aliases and derived keys (orchestrator.py).          *)

\* str(k).strip().lower() on the column names that occur in the inputs.
LowerCol(k) ==
    CASE k = "Title" -> "title"
      [] k = "Job_Title" -> "job_title"
      [] k = "URL" -> "url"
      [] k = "Job_URL" -> "job_url"
      [] k = "DETAIL_JOB_URL" -> "detail_job_url"
      [] k = "Proposals" -> "proposals"
      [] k = "Bids" -> "bids"
      [] k = "Name" -> "name"
      [] k = "Keyword" -> "keyword"
      [] OTHER -> k

\* {str(k).strip().lower(): v for k, v in row.items() if k}
LowerKeys(row) ==
    [lk \in {LowerCol(k) : k \in DOMAIN row} |->
        row[CHOOSE k \in DOMAIN row : LowerCol(k) = lk]]

IsSep(t) == t \in {"://", ".", "/", "?", "#", "=", " ", "-", "|"}

\* re.sub(r"[^a-zA-Z0-9]+", "_", url): every run of separators becomes one "_".
RECURSIVE Slug(_, _)
Slug(url, prevSep) ==
    IF url = <<>> THEN <<>>
    ELSE IF IsSep(Head(url))
         THEN IF prevSep THEN Slug(Tail(url), TRUE)
              ELSE <<"_">> \o Slug(Tail(url), TRUE)
         ELSE <<Head(url)>> \o Slug(Tail(url), FALSE)

\* slug[:120], counted in tokens
SlugLimit == 120

\* re.search(r"/jobs?/([^/?#]+)", url): position of the path segment that
\* follows the first "/jobs/" or "/job/", 0 when there is none.
RECURSIVE JobSegmentFrom(_, _)
JobSegmentFrom(url, i) ==
    IF i + 3 > Len(url) THEN 0
    ELSE IF url[i] = "/" /\ url[i + 1] \in {"jobs", "job"} /\ url[i + 2] = "/"
            /\ url[i + 3] \notin {"/", "?", "#"}
         THEN i + 3
         ELSE JobSegmentFrom(url, i + 1)

\* hashlib.sha1(f"{title}|{keyword}")[:20], taken as collision free
Sha1Key(title, keyword) == <<"sha1:">> \o title \o <<"|">> \o keyword

derive_job_key(url, title, keyword) ==
    IF url # <<>>
    THEN LET m == JobSegmentFrom(url, 1)
         IN IF m # 0 THEN <<url[m]>>
            ELSE LET slug == Slug(url, FALSE)
                 IN <<"url_">> \o SubSeq(slug, 1, Min(Len(slug), SlugLimit))
    ELSE Sha1Key(title, keyword)

\* re.search(r"~[A-Za-z0-9]+", url)
RECURSIVE TildeFrom(_, _)
TildeFrom(url, i) ==
    IF i > Len(url) THEN 0
    ELSE IF url[i] \in {"~01", "~02", "~03"} THEN i
    ELSE TildeFrom(url, i + 1)

derive_talent_key(url, name, keyword) ==
    IF url # <<>>
    THEN LET m == TildeFrom(url, 1)
         IN IF m # 0 THEN <<url[m]>>
            ELSE LET slug == Slug(url, FALSE)
                 IN <<"url_">> \o SubSeq(slug, 1, Min(Len(slug), SlugLimit))
    ELSE Sha1Key(name, keyword)

\* OrchestratorService._parse_datetime: an ISO timestamp or None
_parse_datetime(value) ==
    IF value = NoneStr \/ value = <<>> THEN NoneTime
    ELSE LET text == strip(value)
         IN IF Len(text) = 1 /\ IsNum(text[1]) THEN NumTable[text[1]] ELSE NoneTime

\* The [market_signals] block appended to the description.
SignalMap ==
    << [label |-> "posted", aliases |-> <<"detail_posted", "posted", "posted_date">>],
       [label |-> "activity_proposals", aliases |-> <<"detail_activity_proposals">>],
       [label |-> "client_hire_rate", aliases |-> <<"detail_client_hire_rate">>] >>

RECURSIVE SignalLines(_, _)
SignalLines(row, i) ==
    IF i > Len(SignalMap) THEN <<>>
    ELSE LET value == strip(normalize_text(pick_first(row, SignalMap[i].aliases, <<>>)))
         IN (IF value # <<>> THEN <<SignalMap[i].label, ": ">> \o value \o <<"\n">>
             ELSE <<>>) \o SignalLines(row, i + 1)

_normalize_job_row(row, keyword) ==
    LET title == strip(normalize_text(
                     pick_first(row, <<"title", "job_title">>, <<"Untitled job">>)))
        description0 == normalize_text(
                     pick_first(row, <<"description", "snippet", "summary",
                                       "detail_summary", "detail_description",
                                       "overview">>, <<>>))
        signal_lines == SignalLines(row, 1)
        description == IF signal_lines # <<>>
                       THEN strip(description0 \o <<"[market_signals]">> \o signal_lines)
                       ELSE description0
        url == strip(normalize_text(
                     pick_first(row, <<"url", "job_url", "detail_job_url",
                                       "detail_url">>, <<>>)))
        budget == strip(normalize_text(
                     pick_first(row, <<"budget", "hourly_rate", "price", "payment">>,
                                <<>>)))
        client_spend == parse_money_value(
                     pick_first(row, <<"client_spend", "spent", "client_total_spent">>,
                                NoneStr))
        payment_verified == parse_bool_value(
                     pick_first(row, <<"payment_verified", "client_payment_verified",
                                       "is_payment_verified">>, <<"False">>))
        proposals == pick_first(row, <<"proposals", "proposal_count", "bids">>, NoneStr)
        skills == normalize_text(pick_first(row, <<"skills", "skill_tags", "tags">>, <<>>))
        record_keyword == OrElse(strip(normalize_text(
                     pick_first(row, <<"keyword", "search_keyword", "query">>, keyword))),
                     keyword)
        scraped_at == _parse_datetime(
                     pick_first(row, <<"scraped_at", "timestamp", "created_at">>, NoneStr))
    IN [job_key |-> derive_job_key(url, title, record_keyword),
        keyword |-> record_keyword,
        title |-> title,
        description |-> description,
        url |-> url,
        budget |-> budget,
        budget_value |-> parse_money_value(budget),
        client_spend |-> client_spend,
        payment_verified |-> payment_verified,
        proposals |-> proposals,
        skills |-> skills,
        scraped_at |-> scraped_at]

_normalize_talent_row(row, keyword) ==
    LET name == strip(normalize_text(pick_first(row, <<"name", "full_name">>, <<>>)))
        title == strip(normalize_text(pick_first(row, <<"title", "headline">>, <<>>)))
        url == strip(normalize_text(
                     pick_first(row, <<"url", "profile_url", "detail_profile_url">>, <<>>)))
        record_keyword == OrElse(strip(normalize_text(
                     pick_first(row, <<"keyword", "search_keyword">>, keyword))), keyword)
        scraped_at == _parse_datetime(
                     pick_first(row, <<"scraped_at", "timestamp", "created_at">>, NoneStr))
    IN [talent_key |-> derive_talent_key(url, OrElse(name, title), record_keyword),
        keyword |-> record_keyword,
        name |-> name,
        title |-> title,
        url |-> url,
        scraped_at |-> scraped_at]

----------------------------------------------------------------------------
(* Scoring Engine (orchestrator.py).                                       *)

PROPOSALS_FRESH_MAX == 15
PROPOSALS_STALE_THRESHOLD == 30
PROPOSALS_DEAD_THRESHOLD == 50

SUSPICIOUS_TERMS ==
    {"telegram", "whatsapp", "crypto wallet", "upfront fee", "gift card", "wire transfer"}

\* The entries of FIT_TERM_WEIGHTS that occur in the inputs.
FIT_TERM_WEIGHTS ==
    [t \in {"python", "n8n", "fastapi", "rag", "etl", "sql", "llm", "automation",
            "workflow automation", "graphic design", "wordpress theme"} |->
        CASE t \in {"python", "n8n", "fastapi", "rag", "etl", "automation"} -> 14
          [] t \in {"sql", "llm", "workflow automation"} -> 12
          [] OTHER -> 0 - 20]

\* text.lower() on one token
LowerWord(t) ==
    CASE t = "Python" -> "python"
      [] t = "ETL" -> "etl"
      [] t = "Telegram" -> "telegram"
      [] t = "Completed" -> "completed"
      [] OTHER -> t

\* term in token: the terms of the tables that are substrings of a (lowered) token
TermsIn(t) ==
    CASE t = "workflow automation" -> {"workflow automation", "automation"}
      [] t = "storage" -> {"rag"}
      [] t = "telegram me" -> {"telegram"}
      [] t = "Contact on telegram for upfront fee and crypto wallet transfer."
           -> {"telegram", "upfront fee", "crypto wallet"}
      [] OTHER -> {t}

\* The terms of a table that occur in a text.
TermsOf(text, table) ==
    {term \in table : \E i \in 1..Len(text) : term \in TermsIn(LowerWord(text[i]))}

RECURSIVE SumWeights(_)
SumWeights(terms) ==
    IF terms = {} THEN 0
    ELSE LET t == CHOOSE x \in terms : TRUE
         IN FIT_TERM_WEIGHTS[t] + SumWeights(terms \ {t})

\* compute_fit_score, in hundredths
compute_fit_score(text) ==
    clamp(SumWeights(TermsOf(text, DOMAIN FIT_TERM_WEIGHTS)) * 100, 0, 10000)

\* A freshness that looks at the age of the scrape only.
FreshnessByAgeOnly(proposals_str, scraped_at, now) ==
    LET age_hours == now - scraped_at
    IN IF scraped_at = NoneTime THEN 10000
       ELSE IF age_hours > 120 THEN 7000
       ELSE IF age_hours > 72 THEN 8500
       ELSE IF age_hours > 48 THEN 9500
       ELSE 10000

\* A freshness that takes less from a listing with 50 proposals or more than
\* from one with 30.
FreshnessCrowdedLess(proposals_str, scraped_at, now) ==
    LET proposals == parse_int_value(proposals_str)
        by_proposals ==
            IF proposals = NoneInt THEN 0
            ELSE IF proposals >= PROPOSALS_DEAD_THRESHOLD THEN 6
            ELSE IF proposals >= PROPOSALS_STALE_THRESHOLD THEN 35
            ELSE IF proposals >= PROPOSALS_FRESH_MAX THEN 15
            ELSE 0
        age_hours == now - scraped_at
        by_age ==
            IF scraped_at = NoneTime THEN 0
            ELSE IF age_hours > 120 THEN 30
            ELSE IF age_hours > 72 THEN 15
            ELSE IF age_hours > 48 THEN 5
            ELSE 0
    IN clamp((100 - by_proposals - by_age) * 100, 0, 10000)

\* compute_freshness_score, in hundredths; now is datetime.utcnow()
compute_freshness_score(proposals_str, scraped_at, now) ==
    LET proposals == parse_int_value(proposals_str)
        by_proposals ==
            IF proposals = NoneInt THEN 0
            ELSE IF proposals >= PROPOSALS_DEAD_THRESHOLD THEN 60
            ELSE IF proposals >= PROPOSALS_STALE_THRESHOLD THEN 35
            ELSE IF proposals >= PROPOSALS_FRESH_MAX THEN 15
            ELSE 0
        age_hours == now - scraped_at
        by_age ==
            IF scraped_at = NoneTime THEN 0
            ELSE IF age_hours > 120 THEN 30
            ELSE IF age_hours > 72 THEN 15
            ELSE IF age_hours > 48 THEN 5
            ELSE 0
    IN clamp((100 - by_proposals - by_age) * 100, 0, 10000)

\* len(description.strip()), from the lengths of the chunks in the inputs
CharLen(t) ==
    CASE t = "Detailed project scope with milestones and clear deliverables." -> 62
      [] t = "Need ETL and dashboard automation with SQL" -> 42
      [] t = "long scope" -> 310
      [] t = "Contact on telegram for upfront fee and crypto wallet transfer." -> 63
      [] t = "Contact me on the platform to talk about the scope and the fee." -> 63
      [] t \in {"telegram me", "contact me."} -> 11
      [] OTHER -> 8

RECURSIVE TextLen(_)
TextLen(text) == IF text = <<>> THEN 0 ELSE CharLen(Head(text)) + TextLen(Tail(text))

\* A safety score that gives the unverified client the points of the verified.
SafetyUnverifiedMore(payment_verified, client_spend, proposals, budget_value, description) ==
    LET spend == IF client_spend = NoneInt THEN 0 ELSE client_spend
        s_pay == IF payment_verified THEN 5 ELSE 25
        s_spend == IF spend >= 10000 THEN 20
                   ELSE IF spend >= 1000 THEN 15
                   ELSE IF spend >= 100 THEN 8 ELSE 0
        s_prop == IF proposals = NoneInt THEN 0
                  ELSE IF proposals <= 10 THEN 15
                  ELSE IF proposals <= 20 THEN 10
                  ELSE IF proposals <= 50 THEN 3 ELSE 0 - 10
        s_budget == IF budget_value = NoneInt THEN 0
                    ELSE IF budget_value < 10 THEN 0 - 20
                    ELSE IF budget_value <= 30 THEN 4
                    ELSE IF budget_value <= 10000 THEN 15 ELSE 0 - 5
        description_len == TextLen(strip(description))
        s_desc == IF description_len >= 300 THEN 15
                  ELSE IF description_len >= 120 THEN 10
                  ELSE IF description_len >= 50 THEN 5 ELSE 0 - 12
        s_scam == IF TermsOf(description, SUSPICIOUS_TERMS) # {} THEN 0 - 40 ELSE 0
    IN clamp((s_pay + s_spend + s_prop + s_budget + s_desc + s_scam) * 100, 0, 10000)

\* compute_safety_score, in hundredths
compute_safety_score(payment_verified, client_spend, proposals, budget_value, description) ==
    LET spend == IF client_spend = NoneInt THEN 0 ELSE client_spend
        s_pay == IF payment_verified THEN 25 ELSE 5
        s_spend == IF spend >= 10000 THEN 20
                   ELSE IF spend >= 1000 THEN 15
                   ELSE IF spend >= 100 THEN 8 ELSE 0
        s_prop == IF proposals = NoneInt THEN 0
                  ELSE IF proposals <= 10 THEN 15
                  ELSE IF proposals <= 20 THEN 10
                  ELSE IF proposals <= 50 THEN 3 ELSE 0 - 10
        s_budget == IF budget_value = NoneInt THEN 0
                    ELSE IF budget_value < 10 THEN 0 - 20
                    ELSE IF budget_value <= 30 THEN 4
                    ELSE IF budget_value <= 10000 THEN 15 ELSE 0 - 5
        description_len == TextLen(strip(description))
        s_desc == IF description_len >= 300 THEN 15
                  ELSE IF description_len >= 120 THEN 10
                  ELSE IF description_len >= 50 THEN 5 ELSE 0 - 12
        s_scam == IF TermsOf(description, SUSPICIOUS_TERMS) # {} THEN 0 - 40 ELSE 0
    IN clamp((s_pay + s_spend + s_prop + s_budget + s_desc + s_scam) * 100, 0, 10000)

----------------------------------------------------------------------------
(* Upserts into the Store (orchestrator.py).                               *)

\* Position of the row that a lookup by key returns: with
\* {item.key: item for item in existing} the last row of that key, 0 if none.
RECURSIVE LastIndexOf(_, _, _, _)
LastIndexOf(table, field, key, i) ==
    IF i = 0 THEN 0
    ELSE IF table[i][field] = key THEN i
    ELSE LastIndexOf(table, field, key, i - 1)

\* db.query(...).filter(key == k).first(): the first row of that key, 0 if none.
RECURSIVE FirstIndexOf(_, _, _, _)
FirstIndexOf(table, field, key, i) ==
    IF i > Len(table) THEN 0
    ELSE IF table[i][field] = key THEN i
    ELSE FirstIndexOf(table, field, key, i + 1)

\* unique_rows: one row per key, the last one given, in order of first appearance.
RECURSIVE UniqueRows(_, _, _)
UniqueRows(records, field, seen) ==
    IF records = <<>> THEN <<>>
    ELSE LET key == strip(normalize_text(Head(records)[field]))
         IN IF key = <<>> \/ key \in seen
            THEN UniqueRows(Tail(records), field, seen)
            ELSE <<records[CHOOSE i \in 1..Len(records) :
                               /\ strip(normalize_text(records[i][field])) = key
                               /\ \A j \in (i + 1)..Len(records) :
                                      strip(normalize_text(records[j][field])) # key]>>
                 \o UniqueRows(Tail(records), field, seen \cup {key})

\* The last-seen rule without the comparison: the timestamp of the row is
\* taken whenever the row has one.
NextScrapedAtFromRow(entry_scraped_at, row_scraped_at, now) ==
    LET new_scraped_at == IF row_scraped_at # NoneTime THEN row_scraped_at
                          ELSE IF entry_scraped_at # NoneTime THEN entry_scraped_at
                          ELSE now
    IN new_scraped_at

\* The last-seen rule shared by _upsert_jobs, _upsert_talent and _upsert_projects.
NextScrapedAt(entry_scraped_at, row_scraped_at, now) ==
    LET new_scraped_at == IF row_scraped_at # NoneTime THEN row_scraped_at
                          ELSE IF entry_scraped_at # NoneTime THEN entry_scraped_at
                          ELSE now
    IN IF entry_scraped_at = NoneTime \/ new_scraped_at > entry_scraped_at
       THEN new_scraped_at ELSE entry_scraped_at

\* JobRaw(job_key=key, title=...) before its fields are set
NewJobRaw(key) ==
    [job_key |-> key, keyword |-> NoneStr, title |-> <<>>, description |-> NoneStr,
     url |-> NoneStr, budget |-> NoneStr, budget_value |-> NoneInt,
     client_spend |-> NoneInt, payment_verified |-> FALSE, proposals |-> NoneStr,
     skills |-> NoneStr, source_file |-> "", scraped_at |-> NoneTime]

SetJobFields(entry, row, source_file, now) ==
    [entry EXCEPT
        !.keyword = row.keyword,
        !.title = OrElse(row.title, <<"Untitled job">>),
        !.description = row.description,
        !.url = row.url,
        !.budget = row.budget,
        !.budget_value = row.budget_value,
        !.client_spend = row.client_spend,
        !.payment_verified = row.payment_verified,
        !.proposals = row.proposals,
        !.skills = row.skills,
        !.source_file = source_file,
        !.scraped_at = NextScrapedAt(entry.scraped_at, row.scraped_at, now)]

UpsertJobRowAlwaysNew(table, row, source_file, now) ==
    Append(table, SetJobFields(NewJobRaw(strip(normalize_text(row.job_key))),
                               row, source_file, now))

\* One iteration of the loop of _upsert_jobs over unique_rows.
UpsertJobRow(table, row, source_file, now) ==
    LET key == strip(normalize_text(row.job_key))
        at == LastIndexOf(table, "job_key", key, Len(table))
    IN IF at = 0
       THEN Append(table, SetJobFields(NewJobRaw(key), row, source_file, now))
       ELSE [table EXCEPT ![at] = SetJobFields(table[at], row, source_file, now)]

RECURSIVE UpsertJobRows(_, _, _, _)
UpsertJobRows(table, rows, source_file, now) ==
    IF rows = <<>> THEN table
    ELSE UpsertJobRows(UpsertJobRow(table, Head(rows), source_file, now),
                       Tail(rows), source_file, now)

_upsert_jobs(table, records, source_file, now) ==
    UpsertJobRows(table, UniqueRows(records, "job_key", {}), source_file, now)

NewTalentRaw(key) ==
    [talent_key |-> key, keyword |-> NoneStr, name |-> NoneStr, title |-> NoneStr,
     url |-> NoneStr, source_file |-> "", scraped_at |-> NoneTime]

SetTalentFields(entry, row, source_file, now) ==
    [entry EXCEPT
        !.keyword = row.keyword,
        !.name = row.name,
        !.title = row.title,
        !.url = row.url,
        !.source_file = source_file,
        !.scraped_at = NextScrapedAt(entry.scraped_at, row.scraped_at, now)]

UpsertTalentRow(table, row, source_file, now) ==
    LET key == strip(normalize_text(row.talent_key))
        at == LastIndexOf(table, "talent_key", key, Len(table))
    IN IF at = 0
       THEN Append(table, SetTalentFields(NewTalentRaw(key), row, source_file, now))
       ELSE [table EXCEPT ![at] = SetTalentFields(table[at], row, source_file, now)]

RECURSIVE UpsertTalentRows(_, _, _, _)
UpsertTalentRows(table, rows, source_file, now) ==
    IF rows = <<>> THEN table
    ELSE UpsertTalentRows(UpsertTalentRow(table, Head(rows), source_file, now),
                          Tail(rows), source_file, now)

_upsert_talent(table, records, source_file, now) ==
    UpsertTalentRows(table, UniqueRows(records, "talent_key", {}), source_file, now)

----------------------------------------------------------------------------
(* Refresh pass: keyword metrics and job opportunities (orchestrator.py).  *)

\* round(x / d) for x >= 0
RoundDiv(x, d) == (2 * x + d) \div (2 * d)

RECURSIVE SumField(_, _)
SumField(rows, field) ==
    IF rows = <<>> THEN 0 ELSE Head(rows)[field] + SumField(Tail(rows), field)

\* score_priority, on hundredths
score_priority(opportunity_score) ==
    IF opportunity_score >= 8500 THEN "CRITICAL"
    ELSE IF opportunity_score >= 7000 THEN "HIGH"
    ELSE IF opportunity_score >= 5500 THEN "NORMAL"
    ELSE "LOW"

\* The record _refresh_keyword_metric writes for one keyword (KeywordMetric and
\* KeywordRecommendation carry the same values).
_refresh_keyword_metric(jobs_t, talent_t, keyword, now) ==
    LET jobs == SelectSeq(jobs_t, LAMBDA j : j.keyword = keyword)
        talent == SelectSeq(talent_t, LAMBDA t : t.keyword = keyword)
        demand == Len(jobs)
        supply == Len(talent)
        budgets == SelectSeq(jobs, LAMBDA j : j.budget_value # NoneInt)
        \* budget_avg / 20.0, in hundredths
        budget_score == IF budgets = <<>> THEN 0
                        ELSE clamp((SumField(budgets, "budget_value") * 5) \div Len(budgets),
                                   0, 10000)
        competition_inverse == clamp((100 - Min(90, supply * 4)) * 100, 0, 10000)
        recent_jobs == Len(SelectSeq(jobs, LAMBDA j :
                            j.scraped_at # NoneTime /\ j.scraped_at >= now - 168))
        older_jobs == Max(0, demand - recent_jobs)
        trend_score == clamp(((recent_jobs + 1) * 3500) \div (older_jobs + 1), 0, 10000)
        demand_score == clamp(demand * 500, 0, 10000)
        gap_score == clamp((demand * 2000) \div Max(supply, 1), 0, 10000)
        opportunity_score == RoundDiv(demand_score * 30 + gap_score * 25
                                      + budget_score * 20 + competition_inverse * 15
                                      + trend_score * 10, 100)
    IN [demand |-> demand, supply |-> supply,
        opportunity_score |-> opportunity_score,
        recommended_priority |-> score_priority(opportunity_score)]

KeywordsOf(table) ==
    {table[i].keyword : i \in 1..Len(table)} \ {NoneStr, <<>>}

RefreshKeywords(recs, jobs_t, talent_t, now) ==
    LET keywords == KeywordsOf(jobs_t) \cup KeywordsOf(talent_t)
    IN [k \in DOMAIN recs \cup keywords |->
           IF k \in keywords THEN _refresh_keyword_metric(jobs_t, talent_t, k, now)
           ELSE recs[k]]

_build_job_reasons(opportunity_score, safety_score, fit_score, apply_now) ==
    (IF opportunity_score >= 7000 THEN <<"HIGH_OPPORTUNITY">> ELSE <<>>)
    \o (IF safety_score >= 7000 THEN <<"SAFE_CLIENT">>
        ELSE IF safety_score < 5000 THEN <<"AVOID_RISK">>
        ELSE <<"REVIEW_REQUIRED">>)
    \o (IF fit_score >= 7000 THEN <<"STRONG_AI_DATA_FIT">>
        ELSE IF fit_score >= 5500 THEN <<"PARTIAL_AI_DATA_FIT">>
        ELSE <<>>)
    \o (IF apply_now THEN <<"APPLY_NOW">> ELSE <<>>)

\* job.proposals >= threshold, None counting as below
ProposalsAtLeast(proposals, threshold) ==
    parse_int_value(proposals) # NoneInt /\ parse_int_value(proposals) >= threshold

\* A rule classification that asks for no freshness.
RuleScoresStaleApplies(job, recs, now) ==
    LET r == [opportunity_score |->
                  RoundDiv((IF job.keyword \in DOMAIN recs
                            THEN recs[job.keyword].opportunity_score ELSE 5000) * 70
                           + clamp((IF job.budget_value = NoneInt THEN 0
                                    ELSE job.budget_value) * 5, 0, 10000) * 30, 100),
              safety_score |-> compute_safety_score(job.payment_verified,
                                   job.client_spend, parse_int_value(job.proposals),
                                   job.budget_value, normalize_text(job.description)),
              fit_score |-> compute_fit_score(normalize_text(job.title) \o <<" ">>
                                \o normalize_text(job.description) \o <<" ">>
                                \o normalize_text(job.skills) \o <<" ">>
                                \o normalize_text(job.keyword)),
              is_dead |-> ProposalsAtLeast(job.proposals, PROPOSALS_DEAD_THRESHOLD)]
        apply_now == /\ r.safety_score >= 7000
                     /\ r.fit_score >= 6000
                     /\ r.opportunity_score >= 5500
                     /\ ~r.is_dead
    IN [opportunity_score |-> r.opportunity_score,
        safety_score |-> r.safety_score,
        fit_score |-> r.fit_score,
        freshness |-> compute_freshness_score(OrElse(job.proposals, <<"0">>),
                                              job.scraped_at, now),
        is_dead |-> r.is_dead,
        apply_now |-> apply_now,
        reasons |-> [llm_action |-> "", composite_score |-> 0,
                     codes |-> _build_job_reasons(r.opportunity_score, r.safety_score,
                                                  r.fit_score, apply_now)]]

\* The rule classification of one listing: what _refresh_job_opportunities
\* computes before it looks at the stored record.
RuleScores(job, recs, now) ==
    LET keyword_score == IF job.keyword \in DOMAIN recs
                         THEN recs[job.keyword].opportunity_score ELSE 5000
        budget_score == clamp((IF job.budget_value = NoneInt THEN 0
                               ELSE job.budget_value) * 5, 0, 10000)
        opportunity_score == RoundDiv(keyword_score * 70 + budget_score * 30, 100)
        safety_score == compute_safety_score(job.payment_verified, job.client_spend,
                            parse_int_value(job.proposals), job.budget_value,
                            normalize_text(job.description))
        fit_score == compute_fit_score(normalize_text(job.title) \o <<" ">>
                            \o normalize_text(job.description) \o <<" ">>
                            \o normalize_text(job.skills) \o <<" ">>
                            \o normalize_text(job.keyword))
        freshness == compute_freshness_score(OrElse(job.proposals, <<"0">>),
                            job.scraped_at, now)
        is_stale == ProposalsAtLeast(job.proposals, PROPOSALS_STALE_THRESHOLD)
        is_dead == ProposalsAtLeast(job.proposals, PROPOSALS_DEAD_THRESHOLD)
        apply_now == /\ safety_score >= 7000
                     /\ fit_score >= 6000
                     /\ opportunity_score >= 5500
                     /\ freshness >= 5000
                     /\ ~is_dead
    IN [opportunity_score |-> opportunity_score,
        safety_score |-> safety_score,
        fit_score |-> fit_score,
        freshness |-> freshness,
        is_dead |-> is_dead,
        apply_now |-> apply_now,
        reasons |-> [llm_action |-> "", composite_score |-> 0,
                     codes |-> _build_job_reasons(opportunity_score, safety_score,
                                                  fit_score, apply_now)
                               \o (IF is_dead THEN <<"50+ proposals">>
                                   ELSE IF is_stale THEN <<"30+ proposals">>
                                   ELSE <<>>)]]

\* reasons is a JSON object that carries an llm_action
HasLlmAction(entry) == entry.reasons.llm_action # ""

KeepLlmEntryAsIs(entry, is_dead, now) ==
    [entry EXCEPT !.last_updated = now]

\* What a refresh pass does to a record that carries an llm_action.
KeepLlmEntry(entry, is_dead, now) ==
    [entry EXCEPT !.apply_now = IF is_dead THEN FALSE ELSE @,
                  !.last_updated = now]

RefreshJobOverwriting(opps, job, recs, now) ==
    LET r == RuleScores(job, recs, now)
        at == FirstIndexOf(opps, "job_key", job.job_key, 1)
        written == [job_key |-> job.job_key,
                    title |-> OrElse(job.title, <<"Untitled job">>),
                    keyword |-> OrElse(job.keyword, <<"general">>),
                    opportunity_score |-> r.opportunity_score,
                    safety_score |-> r.safety_score,
                    fit_score |-> r.fit_score,
                    apply_now |-> r.apply_now,
                    reasons |-> r.reasons,
                    last_updated |-> now]
    IN IF at = 0 THEN Append(opps, written)
       ELSE [opps EXCEPT ![at] = written]

\* The body of the loop of _refresh_job_opportunities for one listing.
RefreshJob(opps, job, recs, now) ==
    LET r == RuleScores(job, recs, now)
        at == FirstIndexOf(opps, "job_key", job.job_key, 1)
        written == [job_key |-> job.job_key,
                    title |-> OrElse(job.title, <<"Untitled job">>),
                    keyword |-> OrElse(job.keyword, <<"general">>),
                    opportunity_score |-> r.opportunity_score,
                    safety_score |-> r.safety_score,
                    fit_score |-> r.fit_score,
                    apply_now |-> r.apply_now,
                    reasons |-> r.reasons,
                    last_updated |-> now]
    IN IF at # 0 /\ HasLlmAction(opps[at])
       THEN [opps EXCEPT ![at] = KeepLlmEntry(@, r.is_dead, now)]
       ELSE IF at = 0 THEN Append(opps, written)
       ELSE [opps EXCEPT ![at] = written]

RECURSIVE RefreshJobs(_, _, _, _, _)
RefreshJobs(opps, jobs_t, i, recs, now) ==
    IF i > Len(jobs_t) THEN opps
    ELSE RefreshJobs(RefreshJob(opps, jobs_t[i], recs, now), jobs_t, i + 1, recs, now)

_refresh_job_opportunities(opps, jobs_t, recs, now) ==
    RefreshJobs(opps, jobs_t, 1, recs, now)

----------------------------------------------------------------------------
(* External judgment (llm/job_analyzer.py) and its persistence             *)
(* (main.run_llm_analysis_cycle, llm/router._persist_analysis).            *)

\* What the collaborator may answer for a listing: scores in percent, or no
\* answer at all (failed = TRUE: an LLMError or a timeout).
LLMResponses ==
    { [failed |-> FALSE, technical_fit |-> 100, budget_fit |-> 100, scope_clarity |-> 100,
       competition_signal |-> "low", client_quality |-> 100,
       recommended_action |-> "apply", estimated_effort_hours |-> 5],
      [failed |-> FALSE, technical_fit |-> 0, budget_fit |-> 120, scope_clarity |-> 0,
       competition_signal |-> "fierce", client_quality |-> 0,
       recommended_action |-> "skip", estimated_effort_hours |-> 10],
      [failed |-> TRUE, technical_fit |-> 0, budget_fit |-> 0, scope_clarity |-> 0,
       competition_signal |-> "medium", client_quality |-> 0,
       recommended_action |-> "", estimated_effort_hours |-> 0] }

\* str.upper() on the action
UpperAction(a) ==
    CASE a = "apply" -> "APPLY" [] a = "skip" -> "SKIP" [] a = "watch" -> "WATCH"
      [] OTHER -> a

\* _compute_composite, in units of 0.0001
_compute_composite(a) ==
    LET competition_bonus ==
            CASE a.competition_signal = "low" -> 100
              [] a.competition_signal = "medium" -> 60
              [] a.competition_signal = "high" -> 30
              [] a.competition_signal = "extreme" -> 10
              [] OTHER -> 50
    IN 35 * a.technical_fit + 25 * a.budget_fit + 15 * a.scope_clarity
       + 15 * competition_bonus + 10 * a.client_quality

\* JobAnalysis.from_llm_response: clamp, validate, compute the composite
from_llm_response(job_key, title, data) ==
    LET action == UpperAction(data.recommended_action)
        a == [job_key |-> job_key, title |-> title,
              technical_fit |-> clamp(data.technical_fit, 0, 100),
              budget_fit |-> clamp(data.budget_fit, 0, 100),
              scope_clarity |-> clamp(data.scope_clarity, 0, 100),
              client_quality |-> clamp(data.client_quality, 0, 100),
              competition_signal |->
                  IF data.competition_signal \in {"low", "medium", "high", "extreme"}
                  THEN data.competition_signal ELSE "medium",
              recommended_action |->
                  IF action \in {"APPLY", "SKIP", "WATCH"} THEN action ELSE "WATCH",
              estimated_effort_hours |-> Max(0, data.estimated_effort_hours),
              composite_score |-> 0, llm_error |-> FALSE]
    IN [a EXCEPT !.composite_score = _compute_composite(a)]

\* JobAnalysis.error_result: the dataclass defaults
error_result(job_key, title) ==
    [job_key |-> job_key, title |-> title, technical_fit |-> 0, budget_fit |-> 0,
     scope_clarity |-> 0, client_quality |-> 0, competition_signal |-> "medium",
     recommended_action |-> "WATCH", estimated_effort_hours |-> 0,
     composite_score |-> 0, llm_error |-> TRUE]

\* get_skills_for_matching(), lowered: the 25 core and secondary skills of
\* PROFILE, of which these can occur in the inputs
ProfileSkills == {"python", "n8n", "fastapi", "sql", "langchain", "automation", "etl"}
ProfileSkillCount == 25

\* get_avoid_keywords(), lowered
AvoidKeywords == {"wordpress theme", "graphic design", "video editing"}

\* PROFILE["total_upwork_jobs"]
TotalUpworkJobs == 1

\* The dict main.py and router._row_to_dict hand to the analyzer.
JobDict(job) ==
    [job_key |-> job.job_key, title |-> job.title,
     description |-> normalize_text(job.description),
     budget_value |-> job.budget_value, client_spend |-> job.client_spend,
     payment_verified |-> job.payment_verified,
     proposals |-> OrElse(job.proposals, <<"0">>),
     skills |-> normalize_text(job.skills)]

\* Hard rules that leave a listing with 50 proposals or more its action.
HardRulesNoDeadSkip(analysis, job) ==
    LET budget_val == IF job.budget_value = NoneInt THEN 0 ELSE job.budget_value
        found == FirstNumFrom(job.proposals, 1)
        proposals_num == IF found = NoneInt THEN 0 ELSE found
        job_text == job.title \o <<" ">> \o job.description \o <<" ">> \o job.skills
        skill_hits == Cardinality(TermsOf(job_text, ProfileSkills))
        \* skill_ratio >= x, for x in percent
        RatioAtLeast(x) == skill_hits * 100 >= x * ProfileSkillCount
        c1 == IF RatioAtLeast(30) THEN Min(10000, analysis.composite_score + 800)
              ELSE IF RatioAtLeast(15) THEN Min(10000, analysis.composite_score + 400)
              ELSE analysis.composite_score
        c2 == IF TermsOf(job_text, AvoidKeywords) # {} THEN Max(0, c1 - 1000) ELSE c1
        a1 == IF budget_val > 0 /\ budget_val < 10 /\ analysis.estimated_effort_hours > 3
              THEN "SKIP" ELSE analysis.recommended_action
        a2 == IF proposals_num >= 50 THEN a1
              ELSE IF proposals_num >= 30 /\ a1 = "APPLY" /\ ~RatioAtLeast(20) THEN "WATCH"
              ELSE a1
        c3 == IF proposals_num >= 50 THEN c2
              ELSE IF proposals_num >= 30 THEN Max(0, c2 - 1000)
              ELSE IF proposals_num >= 15 THEN Max(0, c2 - 500)
              ELSE c2
        spend == IF job.client_spend = NoneInt THEN 0 ELSE job.client_spend
        a3 == IF ~job.payment_verified /\ spend = 0 /\ budget_val < 50 /\ a2 = "APPLY"
              THEN "WATCH" ELSE a2
        c4 == IF TotalUpworkJobs < 5 /\ proposals_num <= 10 /\ job.payment_verified
                 /\ RatioAtLeast(15)
              THEN Min(10000, c3 + 800) ELSE c3
        c5 == IF a3 = "SKIP" /\ c4 > 4500 THEN 4000 ELSE c4
    IN [analysis EXCEPT !.recommended_action = a3, !.composite_score = c5]

\* JobAnalyzer._apply_hard_rules
_apply_hard_rules(analysis, job) ==
    LET budget_val == IF job.budget_value = NoneInt THEN 0 ELSE job.budget_value
        found == FirstNumFrom(job.proposals, 1)
        proposals_num == IF found = NoneInt THEN 0 ELSE found
        job_text == job.title \o <<" ">> \o job.description \o <<" ">> \o job.skills
        skill_hits == Cardinality(TermsOf(job_text, ProfileSkills))
        \* skill_ratio >= x, for x in percent
        RatioAtLeast(x) == skill_hits * 100 >= x * ProfileSkillCount
        c1 == IF RatioAtLeast(30) THEN Min(10000, analysis.composite_score + 800)
              ELSE IF RatioAtLeast(15) THEN Min(10000, analysis.composite_score + 400)
              ELSE analysis.composite_score
        c2 == IF TermsOf(job_text, AvoidKeywords) # {} THEN Max(0, c1 - 1000) ELSE c1
        a1 == IF budget_val > 0 /\ budget_val < 10 /\ analysis.estimated_effort_hours > 3
              THEN "SKIP" ELSE analysis.recommended_action
        a2 == IF proposals_num >= 50 THEN "SKIP"
              ELSE IF proposals_num >= 30 /\ a1 = "APPLY" /\ ~RatioAtLeast(20) THEN "WATCH"
              ELSE a1
        c3 == IF proposals_num >= 50 THEN c2
              ELSE IF proposals_num >= 30 THEN Max(0, c2 - 1000)
              ELSE IF proposals_num >= 15 THEN Max(0, c2 - 500)
              ELSE c2
        spend == IF job.client_spend = NoneInt THEN 0 ELSE job.client_spend
        a3 == IF ~job.payment_verified /\ spend = 0 /\ budget_val < 50 /\ a2 = "APPLY"
              THEN "WATCH" ELSE a2
        c4 == IF TotalUpworkJobs < 5 /\ proposals_num <= 10 /\ job.payment_verified
                 /\ RatioAtLeast(15)
              THEN Min(10000, c3 + 800) ELSE c3
        c5 == IF a3 = "SKIP" /\ c4 > 4500 THEN 4000 ELSE c4
    IN [analysis EXCEPT !.recommended_action = a3, !.composite_score = c5]

\* JobAnalyzer.analyze: the judgment with the hard rules on top, or the
\* error result when the call fails.
analyze(job, response) ==
    IF response.failed THEN error_result(job.job_key, job.title)
    ELSE _apply_hard_rules(from_llm_response(job.job_key, job.title, response), job)

\* The reasons object both persistence paths write.
LlmReasons(a) ==
    [llm_action |-> a.recommended_action, composite_score |-> a.composite_score,
     codes |-> <<>>]

\* PersistAnalysis without the lookup of the record of that key: every
\* analysis adds a record.
PersistAnalysisAlwaysAdds(opps, jobs_t, a, now) ==
    LET raw == FirstIndexOf(jobs_t, "job_key", a.job_key, 1)
        is_stale == raw # 0
                    /\ ProposalsAtLeast(jobs_t[raw].proposals, PROPOSALS_STALE_THRESHOLD)
        effective_apply == a.recommended_action = "APPLY" /\ ~is_stale
    IN Append(opps,
              [job_key |-> a.job_key, title |-> a.title,
               keyword |-> IF raw # 0 THEN jobs_t[raw].keyword ELSE <<>>,
               opportunity_score |-> a.composite_score,
               safety_score |-> a.client_quality * 100,
               fit_score |-> a.composite_score,
               apply_now |-> effective_apply,
               reasons |-> LlmReasons(a),
               last_updated |-> now])

\* Persisting one analysis (the loop body of run_llm_analysis_cycle, and
\* router._persist_analysis): update the record of that key, or add one.
PersistAnalysis(opps, jobs_t, a, now) ==
    LET at == FirstIndexOf(opps, "job_key", a.job_key, 1)
        raw == FirstIndexOf(jobs_t, "job_key", a.job_key, 1)
        is_stale == raw # 0
                    /\ ProposalsAtLeast(jobs_t[raw].proposals, PROPOSALS_STALE_THRESHOLD)
        effective_apply == a.recommended_action = "APPLY" /\ ~is_stale
    IN IF at # 0
       THEN [opps EXCEPT ![at].fit_score = a.composite_score,
                         ![at].apply_now = effective_apply,
                         ![at].reasons = LlmReasons(a),
                         ![at].last_updated = now]
       ELSE Append(opps,
                [job_key |-> a.job_key, title |-> a.title,
                 keyword |-> IF raw # 0 THEN jobs_t[raw].keyword ELSE <<>>,
                 opportunity_score |-> a.composite_score,
                 safety_score |-> a.client_quality * 100,
                 fit_score |-> a.composite_score,
                 apply_now |-> effective_apply,
                 reasons |-> LlmReasons(a),
                 last_updated |-> now])

----------------------------------------------------------------------------
(* The watched directory and the files the crawler drops into it.          *)

Paths == {"python_jobs.csv", "export_scrape.json"}

\* detect_dataset_from_filename
detect_dataset_from_filename(path) ==
    CASE path = "python_jobs.csv" -> "jobs"
      [] OTHER -> "mixed"

\* infer_keyword_from_path: the stem without the ignored tokens
infer_keyword_from_path(path) ==
    CASE path = "python_jobs.csv" -> <<"python">>
      [] path = "export_scrape.json" -> <<"export">>
      [] OTHER -> <<"general">>

U1 == <<"https", "://", "upwork", ".", "com", "/", "jobs", "/", "~01">>
U1q == <<"https", "://", "upwork", ".", "com", "/", "jobs", "/", "~01", "?", "ref", "=", "x">>
U3 == <<"https", "://", "example", ".", "com", "/", "posting", "/", "7">>

GoodSkills == <<"python", " ", "n8n", " ", "fastapi", " ", "rag", " ", "etl">>
ClearScope == <<"Detailed project scope with milestones and clear deliverables.">>

\* Raw rows, as the crawler writes them: column names in any casing.
JobRowFresh ==
    [Title |-> <<"Python", " ", "ETL">>, URL |-> U1, Proposals |-> <<"2">>,
     skills |-> GoodSkills, payment_verified |-> <<"true">>,
     client_spend |-> <<"$", "1200">>, budget |-> <<"$", "2500">>,
     description |-> ClearScope, scraped_at |-> <<"50">>]

JobRowStale ==
    [title |-> <<"graphic design">>, url |-> U3, proposals |-> <<"30", " to ", "50">>,
     description |-> <<"telegram me">>, budget |-> <<"$", "5">>,
     timestamp |-> <<"yesterday">>]

JobRowFilled ==
    [Job_Title |-> <<"Python", " ", "ETL">>, Job_URL |-> U1, Bids |-> <<"50", "+">>,
     skills |-> GoodSkills, payment_verified |-> <<"true">>,
     client_spend |-> <<"$", "1200">>, budget |-> <<"$", "2500">>,
     description |-> ClearScope]

JobRowQuery ==
    [job_title |-> <<"Python", " ", "ETL">>, DETAIL_JOB_URL |-> U1q,
     proposals |-> <<"10", " to ", "15">>, skills |-> GoodSkills,
     payment_verified |-> <<"yes">>, spent |-> <<"2", "k">>,
     budget |-> <<"$", "500", "-", "$", "1500">>, description |-> ClearScope,
     scraped_at |-> <<"10">>]

JobRowNoUrl ==
    [title |-> <<" ">>, url |-> <<"nan">>, Keyword |-> <<"etl">>,
     detail_posted |-> <<"2", " days ago">>]

TalentRowA == [Name |-> <<"Ada">>, url |-> <<"https", "://", "upwork", ".", "com", "/", "~01">>]
TalentRowB == [name |-> <<"Ada">>, headline |-> <<"ETL">>, Keyword |-> <<"etl">>]

\* File contents by content id.  jobs_is_list = FALSE is a JSON document whose
\* "jobs" member is null.
FileContent(c) ==
    CASE c = 1 -> [readable |-> TRUE, jobs_is_list |-> TRUE, keyword |-> NoneStr,
                   jobs |-> <<JobRowFresh, JobRowStale>>, talent |-> <<>>]
      [] c = 2 -> [readable |-> TRUE, jobs_is_list |-> TRUE, keyword |-> NoneStr,
                   jobs |-> <<JobRowFilled>>, talent |-> <<>>]
      [] c = 3 -> [readable |-> FALSE, jobs_is_list |-> TRUE, keyword |-> NoneStr,
                   jobs |-> <<>>, talent |-> <<>>]
      [] c = 4 -> [readable |-> TRUE, jobs_is_list |-> TRUE, keyword |-> <<"python">>,
                   jobs |-> <<JobRowQuery, JobRowNoUrl>>,
                   talent |-> <<TalentRowA, TalentRowB>>]
      [] c = 5 -> [readable |-> TRUE, jobs_is_list |-> FALSE, keyword |-> NoneStr,
                   jobs |-> <<>>, talent |-> <<>>]
      [] c = 6 -> [readable |-> TRUE, jobs_is_list |-> TRUE, keyword |-> NoneStr,
                   jobs |-> <<JobRowFilled, JobRowStale, JobRowNoUrl>>, talent |-> <<>>]

\* What the crawler may put at each path.
ContentsAt(path) ==
    CASE path = "python_jobs.csv" -> {1, 2, 3, 6}
      [] path = "export_scrape.json" -> {4, 5}

\* _compute_file_hash: SHA-1 of the bytes, taken as collision free
_compute_file_hash(c) == <<"sha1", c>>

RECURSIVE JsonJobRows(_, _)
JsonJobRows(rows, keyword) ==
    IF rows = <<>> THEN <<>>
    ELSE <<_normalize_job_row(LowerKeys(Head(rows)), keyword)>>
         \o JsonJobRows(Tail(rows), keyword)

RECURSIVE JsonTalentRows(_, _)
JsonTalentRows(rows, keyword) ==
    IF rows = <<>> THEN <<>>
    ELSE <<_normalize_talent_row(LowerKeys(Head(rows)), keyword)>>
         \o JsonTalentRows(Tail(rows), keyword)

\* The keyword _parse_csv_file passes for a row
CsvRowKeyword(row, keyword) ==
    OrElse(strip(normalize_text(pick_first(LowerKeys(row),
              <<"keyword", "search_keyword", "query", "target_keyword">>, keyword))),
           keyword)

RECURSIVE CsvJobRows(_, _)
CsvJobRows(rows, keyword) ==
    IF rows = <<>> THEN <<>>
    ELSE <<_normalize_job_row(LowerKeys(Head(rows)), CsvRowKeyword(Head(rows), keyword))>>
         \o CsvJobRows(Tail(rows), keyword)

RECURSIVE CsvTalentRows(_, _)
CsvTalentRows(rows, keyword) ==
    IF rows = <<>> THEN <<>>
    ELSE <<_normalize_talent_row(LowerKeys(Head(rows)), CsvRowKeyword(Head(rows), keyword))>>
         \o CsvTalentRows(Tail(rows), keyword)

NoRows(keyword) ==
    [raises |-> FALSE, keyword |-> keyword, jobs |-> <<>>, talent |-> <<>>]

\* _parse_csv_file: rows go to the dataset the file name names; any error
\* while reading yields no rows.
_parse_csv_file(path, content) ==
    LET dataset == detect_dataset_from_filename(path)
        keyword == infer_keyword_from_path(path)
        IsTalentRow(row) ==
            \/ dataset = "talent"
            \/ /\ dataset = "mixed"
               /\ {"hourly_rate", "jobs_completed"} \cap DOMAIN LowerKeys(row) # {}
    IN IF ~content.readable THEN NoRows(keyword)
       ELSE [raises |-> FALSE, keyword |-> keyword,
             jobs |-> CsvJobRows(SelectSeq(content.jobs, LAMBDA r : ~IsTalentRow(r)),
                                 keyword),
             talent |-> CsvTalentRows(SelectSeq(content.jobs, IsTalentRow), keyword)]

\* _parse_json_file on a JSON object: json.loads failures yield no rows, but
\* iterating a "jobs" member that is not a list raises out of the parser.
_parse_json_file(path, content) ==
    LET keyword == infer_keyword_from_path(path)
        source_keyword == OrElse(strip(normalize_text(OrElse(content.keyword, keyword))),
                                 keyword)
    IN IF ~content.readable THEN NoRows(keyword)
       ELSE IF ~content.jobs_is_list
            THEN [raises |-> TRUE, keyword |-> keyword, jobs |-> <<>>, talent |-> <<>>]
       ELSE [raises |-> FALSE, keyword |-> keyword,
             jobs |-> JsonJobRows(content.jobs, source_keyword),
             talent |-> JsonTalentRows(content.talent, source_keyword)]

\* file_path.suffix.lower()
Suffix(path) ==
    IF path = "python_jobs.csv" THEN ".csv" ELSE ".json"

_parse_file(path, content) ==
    IF Suffix(path) = ".csv" THEN _parse_csv_file(path, content)
    ELSE _parse_json_file(path, content)

----------------------------------------------------------------------------
(* Ingestion Scanner (OrchestratorService.scan_and_ingest).                *)

MaxEvents == 2       \* rows of pipeline_events the model keeps track of

\* The state a scan threads through its loop over the files.
ScanStart ==
    [ingested |-> ingested_files, jobs |-> jobs_raw, talent |-> talent_raw,
     scanned |-> 0, created |-> 0, updated |-> 0, raised |-> FALSE]

HashUnchangedNever(table, path, payload_hash) == FALSE

\* existing and existing.file_hash == payload_hash
HashUnchanged(table, path, payload_hash) ==
    LET at == FirstIndexOf(table, "file_path", path, 1)
    IN at # 0 /\ table[at].file_hash = payload_hash

\* The body of the loop of scan_and_ingest for one file whose hash differs:
\* a parser error propagates, otherwise the rows are upserted, the file's
\* record written and the file committed before the next one is read.
IngestFile(st, path, payload_hash, parsed, at, now) ==
    IF parsed.raises
    THEN [st EXCEPT !.scanned = @ + 1, !.raised = TRUE]
    ELSE [st EXCEPT
            !.scanned = @ + 1,
            !.jobs = IF parsed.jobs # <<>>
                     THEN _upsert_jobs(@, parsed.jobs, path, now) ELSE @,
            !.talent = IF parsed.talent # <<>>
                       THEN _upsert_talent(@, parsed.talent, path, now) ELSE @,
            !.ingested =
                IF at # 0
                THEN [@ EXCEPT ![at].file_hash = payload_hash,
                               ![at].dataset = detect_dataset_from_filename(path),
                               ![at].keyword = OrElse(parsed.keyword,
                                                      infer_keyword_from_path(path)),
                               ![at].row_count = Len(parsed.jobs) + Len(parsed.talent)]
                ELSE Append(@, [file_path |-> path,
                                file_hash |-> payload_hash,
                                dataset |-> detect_dataset_from_filename(path),
                                keyword |-> OrElse(parsed.keyword,
                                                   infer_keyword_from_path(path)),
                                row_count |-> Len(parsed.jobs) + Len(parsed.talent)]),
            !.created = IF at # 0 THEN @ ELSE @ + 1,
            !.updated = IF at # 0 THEN @ + 1 ELSE @]

\* The body of the loop of scan_and_ingest for one file.
ScanFile(st, path, content_id, now) ==
    IF HashUnchanged(st.ingested, path, _compute_file_hash(content_id))
    THEN [st EXCEPT !.scanned = @ + 1]
    ELSE IngestFile(st, path, _compute_file_hash(content_id),
                    _parse_file(path, FileContent(content_id)),
                    FirstIndexOf(st.ingested, "file_path", path, 1), now)

RECURSIVE ScanFiles(_, _, _, _)
ScanFiles(st, order, tree, now) ==
    IF order = <<>> \/ st.raised THEN st
    ELSE ScanFiles(ScanFile(st, Head(order), tree[Head(order)], now),
                   Tail(order), tree, now)

\* The orders in which rglob may yield the files of the tree.
ScanOrders(tree) ==
    LET present == {p \in Paths : tree[p] # 0}
    IN {order \in [1..Cardinality(present) -> present] :
           \A i, j \in DOMAIN order : i # j => order[i] # order[j]}

\* The end of scan_and_ingest: what the loop committed stays; unless a parser
\* raised, the refresh pass runs, the ingest_scan event is logged and the
\* counters are returned.
ScanFinish(st, recs) ==
    /\ ingested_files' = st.ingested
    /\ jobs_raw' = st.jobs
    /\ talent_raw' = st.talent
    /\ IF st.raised
       THEN /\ UNCHANGED <<keyword_recs, job_opps, events, fs_touched>>
            /\ scan_result' = [ok |-> FALSE, scanned_files |-> 0,
                               new_files |-> 0, updated_files |-> 0]
       ELSE /\ keyword_recs' = recs
            /\ job_opps' = _refresh_job_opportunities(job_opps, st.jobs, recs, utcnow)
            /\ events' = Append(events,
                   [event_type |-> "ingest_scan", run_id |-> "", sid |-> 0])
            /\ fs_touched' = FALSE
            /\ scan_result' = [ok |-> TRUE, scanned_files |-> st.scanned,
                               new_files |-> st.created,
                               updated_files |-> st.updated]

ScanRefresh(st) ==
    ScanFinish(st, RefreshKeywords(keyword_recs, st.jobs, st.talent, utcnow))

\* scan_and_ingest: ingest every changed file, then one refresh pass, then the
\* ingest_scan event.  A parser error leaves the files committed so far and
\* propagates to the caller.
scan_and_ingest ==
    /\ Len(events) < MaxEvents
    /\ \E order \in ScanOrders(fs) :
         ScanRefresh(ScanFiles(ScanStart, order, fs, utcnow))
    /\ UNCHANGED <<fs, utcnow>>
    /\ UNCHANGED nonStoreVars

\* The loop of scan_and_ingest when the crawler rewrites a file while the
\* scan is under way: _compute_file_hash reads the bytes the file had
\* (hashed), _parse_file opens the file again and reads the bytes it has by
\* then (parsed).
RECURSIVE ScanFilesRead(_, _, _, _, _)
ScanFilesRead(st, order, hashed, parsed, now) ==
    IF order = <<>> \/ st.raised THEN st
    ELSE LET path == Head(order)
             payload_hash == _compute_file_hash(hashed[path])
             next == IF HashUnchanged(st.ingested, path, payload_hash)
                     THEN [st EXCEPT !.scanned = @ + 1]
                     ELSE IngestFile(st, path, payload_hash,
                                     _parse_file(path, FileContent(parsed[path])),
                                     FirstIndexOf(st.ingested, "file_path", path, 1), now)
         IN ScanFilesRead(next, Tail(order), hashed, parsed, now)

\* The end of scan_and_ingest when a file was rewritten under it: as
\* ScanFinish, but the tree has changed since the scan read it.
ScanFinishTouched(st, recs) ==
    /\ ingested_files' = st.ingested
    /\ jobs_raw' = st.jobs
    /\ talent_raw' = st.talent
    /\ fs_touched' = TRUE
    /\ IF st.raised
       THEN /\ UNCHANGED <<keyword_recs, job_opps, events>>
            /\ scan_result' = [ok |-> FALSE, scanned_files |-> 0,
                               new_files |-> 0, updated_files |-> 0]
       ELSE /\ keyword_recs' = recs
            /\ job_opps' = _refresh_job_opportunities(job_opps, st.jobs, recs, utcnow)
            /\ events' = Append(events,
                   [event_type |-> "ingest_scan", run_id |-> "", sid |-> 0])
            /\ scan_result' = [ok |-> TRUE, scanned_files |-> st.scanned,
                               new_files |-> st.created,
                               updated_files |-> st.updated]

ScanRefreshTouched(st) ==
    ScanFinishTouched(st, RefreshKeywords(keyword_recs, st.jobs, st.talent, utcnow))

\* scan_and_ingest while the crawler rewrites one of the files between the
\* read of _compute_file_hash and the read of _parse_file.
scan_and_ingest_file_rewritten ==
    /\ Len(events) < MaxEvents
    /\ \E p \in Paths : \E c \in ContentsAt(p) :
         /\ fs[p] # 0
         /\ fs[p] # c
         /\ fs' = [fs EXCEPT ![p] = c]
         /\ \E order \in ScanOrders(fs) :
              ScanRefreshTouched(ScanFilesRead(ScanStart, order, fs,
                                               [fs EXCEPT ![p] = c], utcnow))
    /\ UNCHANGED utcnow
    /\ UNCHANGED nonStoreVars

----------------------------------------------------------------------------
(* Scans side by side.  scan_and_ingest runs without the write permit      *)
(* (write=False in run_orchestrator_cycle_sync and in ingest_scan), each   *)
(* call in a session of its own: what a scan has queried and changed stays *)
(* in its session until db.flush() and db.commit() write it to the Store.  *)

\* The callers that may be inside scan_and_ingest at the same time: the
\* scheduler's thread and a POST /v1/ingest/scan request.
Scanners == {"orchestrator_scheduler", "ingest_scan"}

\* The tables as a query of this moment returns them, with the counters of
\* the scan so far.
SessionView(proc) ==
    [ingested |-> ingested_files, jobs |-> jobs_raw, talent |-> talent_raw,
     scanned |-> proc.scanned, created |-> proc.created, updated |-> proc.updated,
     raised |-> FALSE]

NoSession ==
    [ingested |-> <<>>, jobs |-> <<>>, talent |-> <<>>,
     scanned |-> 0, created |-> 0, updated |-> 0, raised |-> FALSE]

ScanIdle ==
    [pc |-> "idle", files |-> <<>>, scanned |-> 0, created |-> 0, updated |-> 0,
     path |-> "", payload_hash |-> <<>>, seen |-> NoSession, session |-> NoSession]

\* An INSERT of the flush meets a row of its key that another session has
\* committed since this one looked: the unique index raises IntegrityError.
FlushConflict(committed, seen, written, field) ==
    \E i \in 1..Len(written) :
        /\ FirstIndexOf(seen, field, written[i][field], 1) = 0
        /\ FirstIndexOf(committed, field, written[i][field], 1) # 0

\* The UPDATE of one row: the columns the session changed are written, the
\* others stay as they are in the Store.
FlushRow(committed_row, seen_row, written_row) ==
    [f \in DOMAIN written_row |->
        IF written_row[f] # seen_row[f] THEN written_row[f] ELSE committed_row[f]]

\* db.flush(); db.commit(): the rows the session added are inserted, the
\* rows it changed are updated.
RECURSIVE Flush(_, _, _, _, _)
Flush(committed, seen, written, field, i) ==
    IF i > Len(written) THEN committed
    ELSE LET key == written[i][field]
             at_seen == FirstIndexOf(seen, field, key, 1)
             at == FirstIndexOf(committed, field, key, 1)
         IN Flush(IF at_seen = 0 THEN Append(committed, written[i])
                  ELSE [committed EXCEPT
                           ![at] = FlushRow(committed[at], seen[at_seen], written[i])],
                  seen, written, field, i + 1)

\* scan_and_ingest is called: rglob lists the files of the tree.
scan_starts ==
    /\ Len(events) < MaxEvents
    /\ \E s \in Scanners : \E order \in ScanOrders(fs) :
         /\ scan_proc[s].pc = "idle"
         /\ scan_proc' = [scan_proc EXCEPT ![s] = [ScanIdle EXCEPT !.pc = "loop",
                                                                   !.files = order]]
    /\ UNCHANGED <<storeVars, runVars, lockVars, readVars, retryVars, callVars>>

\* What the loop body leaves in the scanner's record for the file at hand.
ScanReads(proc, seen, session) ==
    IF session.raised THEN ScanIdle
    ELSE IF session.ingested = seen.ingested
    THEN [proc EXCEPT !.files = Tail(@), !.scanned = session.scanned]
    ELSE [proc EXCEPT !.pc = "flush", !.path = Head(proc.files),
                      !.payload_hash = _compute_file_hash(fs[Head(proc.files)]),
                      !.seen = seen, !.session = session]

\* The loop body of scan_and_ingest up to db.flush(): hash, lookup of the
\* record and, for a new or changed file, parse and upserts in the session.
\* A parser error leaves scan_and_ingest.
scan_reads_file ==
    /\ \E s \in Scanners :
         /\ scan_proc[s].pc = "loop"
         /\ scan_proc[s].files # <<>>
         /\ scan_proc' =
               [scan_proc EXCEPT
                   ![s] = ScanReads(@, SessionView(@),
                                    ScanFile(SessionView(@), Head(@.files),
                                             fs[Head(@.files)], utcnow))]
         /\ scan_result' =
               IF ScanFile(SessionView(scan_proc[s]), Head(scan_proc[s].files),
                           fs[Head(scan_proc[s].files)], utcnow).raised
               THEN [ok |-> FALSE, scanned_files |-> 0, new_files |-> 0,
                     updated_files |-> 0]
               ELSE scan_result
    /\ UNCHANGED <<fs, ingested_files, jobs_raw, talent_raw, keyword_recs, job_opps,
                   events, utcnow, fs_touched>>
    /\ UNCHANGED <<runVars, lockVars, readVars, retryVars, callVars>>

\* The flush finds a row of a key the session is about to insert.
SessionConflicts(proc) ==
    \/ FlushConflict(ingested_files, proc.seen.ingested, proc.session.ingested, "file_path")
    \/ FlushConflict(jobs_raw, proc.seen.jobs, proc.session.jobs, "job_key")
    \/ FlushConflict(talent_raw, proc.seen.talent, proc.session.talent, "talent_key")

\* db.flush(); db.commit() for the file at hand: the file is committed and
\* the loop goes on, or IntegrityError leaves scan_and_ingest and _run_once
\* rolls the session back.
scan_flushes ==
    /\ \E s \in Scanners :
         /\ scan_proc[s].pc = "flush"
         /\ IF SessionConflicts(scan_proc[s])
            THEN /\ scan_proc' = [scan_proc EXCEPT ![s] = ScanIdle]
                 /\ scan_result' = [ok |-> FALSE, scanned_files |-> 0, new_files |-> 0,
                                    updated_files |-> 0]
                 /\ UNCHANGED <<ingested_files, jobs_raw, talent_raw>>
            ELSE /\ ingested_files' = Flush(ingested_files, scan_proc[s].seen.ingested,
                                            scan_proc[s].session.ingested, "file_path", 1)
                 /\ jobs_raw' = Flush(jobs_raw, scan_proc[s].seen.jobs,
                                      scan_proc[s].session.jobs, "job_key", 1)
                 /\ talent_raw' = Flush(talent_raw, scan_proc[s].seen.talent,
                                        scan_proc[s].session.talent, "talent_key", 1)
                 /\ scan_proc' =
                       [scan_proc EXCEPT
                           ![s] = [@ EXCEPT !.pc = "loop", !.files = Tail(@),
                                            !.scanned = scan_proc[s].session.scanned,
                                            !.created = scan_proc[s].session.created,
                                            !.updated = scan_proc[s].session.updated,
                                            !.seen = NoSession, !.session = NoSession]]
                 /\ UNCHANGED scan_result
    /\ UNCHANGED <<fs, keyword_recs, job_opps, events, utcnow, fs_touched>>
    /\ UNCHANGED <<runVars, lockVars, readVars, retryVars, callVars>>

\* The loop is over: the refresh pass, the ingest_scan event, the counters.
scan_finishes ==
    /\ Len(events) < MaxEvents
    /\ \E s \in Scanners :
         /\ scan_proc[s].pc = "loop"
         /\ scan_proc[s].files = <<>>
         /\ ScanRefresh(SessionView(scan_proc[s]))
         /\ scan_proc' = [scan_proc EXCEPT ![s] = ScanIdle]
    /\ UNCHANGED <<fs, utcnow>>
    /\ UNCHANGED <<runVars, lockVars, readVars, retryVars, callVars>>

ScanInit == scan_proc = [s \in Scanners |-> ScanIdle]

\* The crawler adds or rewrites a file.
WriteFile ==
    /\ \E p \in Paths : \E c \in ContentsAt(p) :
         /\ fs[p] # c
         /\ fs' = [fs EXCEPT ![p] = c]
    /\ fs_touched' = TRUE
    /\ UNCHANGED <<ingested_files, jobs_raw, talent_raw, keyword_recs, job_opps,
                   events, utcnow, scan_result>>
    /\ UNCHANGED nonStoreVars

\* A file is removed from the tree.
DeleteFile ==
    /\ \E p \in Paths :
         /\ fs[p] # 0
         /\ fs' = [fs EXCEPT ![p] = 0]
    /\ fs_touched' = TRUE
    /\ UNCHANGED <<ingested_files, jobs_raw, talent_raw, keyword_recs, job_opps,
                   events, utcnow, scan_result>>
    /\ UNCHANGED nonStoreVars

\* list.sort(key=composite_score, reverse=True): stable, highest first
RECURSIVE InsertByComposite(_, _)
InsertByComposite(sorted, a) ==
    IF sorted = <<>> THEN <<a>>
    ELSE IF Head(sorted).composite_score >= a.composite_score
    THEN <<Head(sorted)>> \o InsertByComposite(Tail(sorted), a)
    ELSE <<a>> \o sorted

RECURSIVE SortByComposite(_)
SortByComposite(analyses) ==
    IF analyses = <<>> THEN <<>>
    ELSE InsertByComposite(SortByComposite(Tail(analyses)), Head(analyses))

\* LLM_AUTO_BATCH_SIZE
LLM_AUTO_BATCH_SIZE == 10

\* ORDER BY scraped_at DESC over the listings the cycle may analyze: those
\* whose proposal count is unknown or below the dead threshold.  json is not
\* a name of main.py, so the scan for already-analyzed keys adds none.
RECURSIVE InsertByScrapedAt(_, _)
InsertByScrapedAt(sorted, job) ==
    IF sorted = <<>> THEN <<job>>
    ELSE IF Head(sorted).scraped_at >= job.scraped_at
    THEN <<Head(sorted)>> \o InsertByScrapedAt(Tail(sorted), job)
    ELSE <<job>> \o sorted

RECURSIVE Unanalyzed(_, _)
Unanalyzed(jobs_t, i) ==
    IF i = 0 THEN <<>>
    ELSE IF ProposalsAtLeast(jobs_t[i].proposals, PROPOSALS_DEAD_THRESHOLD)
    THEN Unanalyzed(jobs_t, i - 1)
    ELSE InsertByScrapedAt(Unanalyzed(jobs_t, i - 1), jobs_t[i])

RECURSIVE PersistAll(_, _, _, _)
PersistAll(opps, jobs_t, analyses, now) ==
    IF analyses = <<>> THEN opps
    ELSE PersistAll(PersistAnalysis(opps, jobs_t, Head(analyses), now),
                    jobs_t, Tail(analyses), now)

\* run_llm_analysis_cycle: analyze a batch of listings and persist the
\* judgments in one commit.  available = FALSE is the bridge being down.
run_llm_analysis_cycle ==
    /\ \E available \in BOOLEAN :
         LET unanalyzed == Unanalyzed(jobs_raw, Len(jobs_raw))
             jobs_to_analyze ==
                 SubSeq(unanalyzed, 1, Min(Len(unanalyzed), LLM_AUTO_BATCH_SIZE))
         IN IF ~available \/ unanalyzed = <<>>
            THEN UNCHANGED job_opps
            ELSE \E answers \in [1..Len(jobs_to_analyze) -> LLMResponses] :
                   LET analyses ==
                           SortByComposite(
                               [i \in 1..Len(jobs_to_analyze) |->
                                   analyze(JobDict(jobs_to_analyze[i]), answers[i])])
                   IN job_opps' = PersistAll(job_opps, jobs_raw, analyses, utcnow)
    /\ UNCHANGED <<fs, ingested_files, jobs_raw, talent_raw, keyword_recs, events,
                   utcnow, scan_result, fs_touched>>
    /\ UNCHANGED nonStoreVars

\* Run payloads the extension may submit to the Store: raw rows under
\* data.jobs and data.talent, a keyword and a status.
RunPayloads ==
    { [status |-> <<"running">>, keyword |-> <<"python">>,
       jobs |-> <<JobRowFresh>>, talent |-> <<>>],
      [status |-> <<"running">>, keyword |-> <<" ">>,
       jobs |-> <<JobRowFilled, JobRowStale>>, talent |-> <<TalentRowB>>] }

\* The keyword ingest_run_payload passes for a row
RunRowKeyword(row, keyword) ==
    OrElse(strip(normalize_text(pick_first(LowerKeys(row),
              <<"keyword", "search_keyword">>, keyword))),
           keyword)

RECURSIVE RunJobRows(_, _)
RunJobRows(rows, keyword) ==
    IF rows = <<>> THEN <<>>
    ELSE <<_normalize_job_row(LowerKeys(Head(rows)), RunRowKeyword(Head(rows), keyword))>>
         \o RunJobRows(Tail(rows), keyword)

RECURSIVE RunTalentRows(_, _)
RunTalentRows(rows, keyword) ==
    IF rows = <<>> THEN <<>>
    ELSE <<_normalize_talent_row(LowerKeys(Head(rows)), RunRowKeyword(Head(rows), keyword))>>
         \o RunTalentRows(Tail(rows), keyword)

\* f"extension_run:{run_id}"
RunSource(run_id) == "extension_run:" \o run_id

\* OrchestratorService.ingest_run_payload: upsert the rows of the payload,
\* commit, refresh if asked to, log the ingest_run_payload event.  sid tags
\* the event with the submission it persists.
ingest_run_payload(run_id, run, refresh_metrics, sid) ==
    LET keyword == OrElse(strip(normalize_text(run.keyword)), <<"general">>)
        jobs_rows == RunJobRows(run.jobs, keyword)
        talent_rows == RunTalentRows(run.talent, keyword)
        jobs_t == IF jobs_rows # <<>>
                  THEN _upsert_jobs(jobs_raw, jobs_rows, RunSource(run_id), utcnow)
                  ELSE jobs_raw
        talent_t == IF talent_rows # <<>>
                    THEN _upsert_talent(talent_raw, talent_rows, RunSource(run_id), utcnow)
                    ELSE talent_raw
        recs == RefreshKeywords(keyword_recs, jobs_t, talent_t, utcnow)
    IN /\ jobs_raw' = jobs_t
       /\ talent_raw' = talent_t
       /\ IF refresh_metrics
          THEN /\ keyword_recs' = recs
               /\ job_opps' = _refresh_job_opportunities(job_opps, jobs_t, recs, utcnow)
          ELSE UNCHANGED <<keyword_recs, job_opps>>
       /\ events' = Append(events, [event_type |-> "ingest_run_payload",
                                    run_id |-> run_id, sid |-> sid])

\* _persist_run_ingest as the Store sees it: ingest_run_payload without the
\* refresh pass.
_persist_run_ingest ==
    /\ Len(events) < MaxEvents
    /\ \E run \in RunPayloads : ingest_run_payload("run-1", run, FALSE, 0)
    /\ UNCHANGED <<fs, ingested_files, utcnow, scan_result, fs_touched>>
    /\ UNCHANGED nonStoreVars

\* Wall-clock time passes.
Tick ==
    /\ utcnow < MaxClock
    /\ utcnow' = MaxClock
    /\ UNCHANGED <<fs, ingested_files, jobs_raw, talent_raw, keyword_recs, job_opps,
                   events, scan_result, fs_touched>>
    /\ UNCHANGED nonStoreVars

\* run_orchestrator_refresh_sync: refresh_metrics_and_opportunities alone.
refresh_metrics_and_opportunities ==
    /\ LET recs == RefreshKeywords(keyword_recs, jobs_raw, talent_raw, utcnow)
       IN /\ keyword_recs' = recs
          /\ job_opps' = _refresh_job_opportunities(job_opps, jobs_raw, recs, utcnow)
    /\ UNCHANGED <<fs, ingested_files, jobs_raw, talent_raw, events, utcnow,
                   scan_result, fs_touched>>
    /\ UNCHANGED nonStoreVars

----------------------------------------------------------------------------
(* Run submissions: debounce, retry queue and retry worker (main.py).      *)
(* Time on this path is time.time(), counted in seconds by clock.          *)

RUN_INGEST_MIN_PROCESS_SECONDS == 12
RUN_INGEST_REFRESH_SECONDS == 90
RUN_INGEST_MIN_NEW_ITEMS == 20
RUN_INGEST_RETRY_INTERVAL_SECONDS == 2
RUN_INGEST_RETRY_MAX_BACKOFF_SECONDS == 60

\* Capacities of the retry queue and of the tracker.  The code reads them from
\* the environment with a floor of 100; the model scales them down so that a
\* full queue and a full tracker are within reach of a few submissions.
MaxQueue == 1
MaxTracker == 1
RUN_INGEST_RETRY_MAX_QUEUE == MaxQueue
RUN_INGEST_TRACKER_MAX == MaxTracker

\* Calls of ingest_run in one behaviour.
MaxSubmissions == 2

\* time.time() when the first submission arrives: far from the epoch, so that
\* now - 0 exceeds every interval.
StartTime == RUN_INGEST_REFRESH_SECONDS

FINAL_RUN_STATUSES ==
    {<<"complete">>, <<"completed">>, <<"stopped">>, <<"done">>, <<"finished">>}

\* str.lower() on text
Lower(text) == [i \in DOMAIN text |-> LowerWord(text[i])]

RECURSIVE DetailCount(_)
DetailCount(rows) ==
    IF rows = <<>> THEN 0
    ELSE (IF "detail_status" \in DOMAIN Head(rows)
             /\ Head(rows)["detail_status"] \notin {NoneStr, <<>>}
          THEN 1 ELSE 0) + DetailCount(Tail(rows))

_run_payload_stats(run) ==
    [jobs |-> Len(run.jobs), talent |-> Len(run.talent), projects |-> 0,
     total |-> Len(run.jobs) + Len(run.talent),
     detail |-> DetailCount(run.jobs \o run.talent)]

_run_status_value(run) == Lower(strip(run.status))

\* A status that is never final.
IsFinalRunNever(run) == FALSE

_is_final_run(run) == _run_status_value(run) \in FINAL_RUN_STATUSES

\* f"{status}|{jobs}|{talent}|{projects}|{detail}"
_build_run_signature(run) ==
    <<_run_status_value(run), _run_payload_stats(run).jobs, _run_payload_stats(run).talent,
      _run_payload_stats(run).projects, _run_payload_stats(run).detail>>

\* The RunIngestResponse the caller receives; at is the time it was built.
_default_run_ingest_response(run_id, run, at) ==
    [run_id |-> run_id, keyword |-> OrElse(strip(run.keyword), <<"general">>),
     jobs_ingested |-> _run_payload_stats(run).jobs,
     talent_ingested |-> _run_payload_stats(run).talent,
     projects_ingested |-> _run_payload_stats(run).projects,
     updated_metrics_at |-> at]

\* What ingest_run_payload returns, as RunIngestResponse keeps it.
RunIngestResponse(run_id, run, at) ==
    [run_id |-> run_id,
     keyword |-> OrElse(strip(normalize_text(run.keyword)), <<"general">>),
     jobs_ingested |-> Len(run.jobs), talent_ingested |-> Len(run.talent),
     projects_ingested |-> 0, updated_metrics_at |-> at]

\* RUN_INGEST_TRACKER.get(run_id, {}).copy(): <<>> for {}, else the record.
TrackerCopy(tr, run_id) ==
    IF FirstIndexOf(tr, "run_id", run_id, 1) = 0 THEN <<>>
    ELSE <<tr[FirstIndexOf(tr, "run_id", run_id, 1)]>>

\* tracker.get(field, 0)
TrackerGet(tracker, field) == IF tracker = <<>> THEN 0 ELSE tracker[1][field]

\* sorted(items, key=updated_at, reverse=True): stable, newest first.
RECURSIVE InsertByUpdatedAt(_, _)
InsertByUpdatedAt(sorted, e) ==
    IF sorted = <<>> THEN <<e>>
    ELSE IF Head(sorted).updated_at >= e.updated_at
         THEN <<Head(sorted)>> \o InsertByUpdatedAt(Tail(sorted), e)
         ELSE <<e>> \o sorted

RECURSIVE SortByUpdatedAt(_, _)
SortByUpdatedAt(sorted, rest) ==
    IF rest = <<>> THEN sorted
    ELSE SortByUpdatedAt(InsertByUpdatedAt(sorted, Head(rest)), Tail(rest))

\* _update_run_ingest_tracker: merge the update into the run's record, stamp
\* it, and prune the tracker to its newest RUN_INGEST_TRACKER_MAX records.
\* A record without last_refresh_at reads as 0 wherever it is read.
_update_run_ingest_tracker(tr, run_id, update, did_refresh, now) ==
    LET at == FirstIndexOf(tr, "run_id", run_id, 1)
        merged == [run_id |-> run_id,
                   signature |-> update.signature,
                   last_processed_at |-> update.last_processed_at,
                   last_total |-> update.last_total,
                   last_response |-> update.last_response,
                   last_refresh_at |-> IF did_refresh THEN update.last_processed_at
                                       ELSE IF at # 0 THEN tr[at].last_refresh_at
                                       ELSE 0,
                   updated_at |-> now]
        written == IF at # 0 THEN [tr EXCEPT ![at] = merged] ELSE Append(tr, merged)
    IN IF Len(written) <= RUN_INGEST_TRACKER_MAX THEN written
       ELSE SubSeq(SortByUpdatedAt(<<>>, written), 1, RUN_INGEST_TRACKER_MAX)

RemoveAt(q, i) == SubSeq(q, 1, i - 1) \o SubSeq(q, i + 1, Len(q))

\* RUN_INGEST_TRACKER.pop(run_id, None)
TrackerPop(tr, run_id) ==
    IF FirstIndexOf(tr, "run_id", run_id, 1) = 0 THEN tr
    ELSE RemoveAt(tr, FirstIndexOf(tr, "run_id", run_id, 1))

\* _record_run_ingest_success, on the tracker: a final run leaves it, any
\* other run has its record written.  now is time.time() at the write.
_record_run_ingest_success(tr, run_id, signature, stats, response, processed_at, is_final, did_refresh, now) ==
    IF is_final THEN TrackerPop(tr, run_id)
    ELSE _update_run_ingest_tracker(
             tr, run_id,
             [signature |-> signature, last_processed_at |-> processed_at,
              last_total |-> stats.total, last_response |-> response],
             did_refresh, now)

\* The first of the entries at positions S in sorted(..., key=queued_at).
OldestIn(q, S) ==
    CHOOSE i \in S : \A j \in S :
        \/ q[i].queued_at < q[j].queued_at
        \/ (q[i].queued_at = q[j].queued_at /\ i <= j)

RECURSIVE TrimNonFinal(_)
TrimNonFinal(q) ==
    IF Len(q) <= RUN_INGEST_RETRY_MAX_QUEUE \/ \A i \in DOMAIN q : q[i].is_final THEN q
    ELSE TrimNonFinal(RemoveAt(q, OldestIn(q, {i \in DOMAIN q : ~q[i].is_final})))

RECURSIVE TrimOldest(_)
TrimOldest(q) ==
    IF Len(q) <= RUN_INGEST_RETRY_MAX_QUEUE THEN q
    ELSE TrimOldest(RemoveAt(q, OldestIn(q, DOMAIN q)))

\* A trim that evicts nothing.
TrimNothing(q) == q

\* _trim_ingest_retry_queue_unlocked: over capacity, entries that are not
\* final go first, oldest first; then the oldest of what is left.
_trim_ingest_retry_queue_unlocked(q) == TrimOldest(TrimNonFinal(q))

\* RUN_INGEST_RETRY_QUEUE[run_id] = entry, in dict order.
QueuePut(q, run_id, entry) ==
    IF FirstIndexOf(q, "run_id", run_id, 1) = 0 THEN Append(q, entry)
    ELSE [q EXCEPT ![FirstIndexOf(q, "run_id", run_id, 1)] = entry]

\* An enqueue that keeps nothing.
EnqueueNothing(q, run_id, payload_dump, run, is_final, error, now) == q

\* An enqueue that starts the entry of a queued run afresh.
EnqueueAfresh(q, run_id, payload_dump, run, is_final, error, now) ==
    LET at == FirstIndexOf(q, "run_id", run_id, 1)
        stats == _run_payload_stats(run)
    IN IF at # 0 /\ ~is_final /\ q[at].stats.total > stats.total THEN q
       ELSE _trim_ingest_retry_queue_unlocked(
                QueuePut(q, run_id,
                    [run_id |-> run_id,
                     payload |-> payload_dump,
                     signature |-> _build_run_signature(run),
                     stats |-> stats,
                     is_final |-> is_final,
                     queued_at |-> now,
                     attempts |-> 0,
                     next_retry_at |-> now,
                     last_error |-> error]))

\* _enqueue_run_ingest_retry, on the queue.
_enqueue_run_ingest_retry(q, run_id, payload_dump, run, is_final, error, now) ==
    LET at == FirstIndexOf(q, "run_id", run_id, 1)
        stats == _run_payload_stats(run)
    IN IF at # 0 /\ ~is_final /\ q[at].stats.total > stats.total THEN q
       ELSE _trim_ingest_retry_queue_unlocked(
                QueuePut(q, run_id,
                    [run_id |-> run_id,
                     payload |-> payload_dump,
                     signature |-> _build_run_signature(run),
                     stats |-> stats,
                     is_final |-> is_final \/ (at # 0 /\ q[at].is_final),
                     queued_at |-> IF at # 0 THEN q[at].queued_at ELSE now,
                     attempts |-> IF at # 0 THEN q[at].attempts ELSE 0,
                     next_retry_at |-> now,
                     last_error |-> error]))

\* A pop that takes the oldest ready entry, final or not.
ReadyIndexOldest(q, now) ==
    LET ready == {i \in DOMAIN q : q[i].next_retry_at <= now}
    IN IF ready = {} THEN 0
       ELSE CHOOSE i \in ready : \A j \in ready :
                \/ q[i].queued_at < q[j].queued_at
                \/ (q[i].queued_at = q[j].queued_at /\ i <= j)

\* _pop_ready_ingest_retry_unlocked: the position of the entry it pops, 0 when
\* nothing is ready.  Ready entries are sorted by (0 if final else 1, queued_at).
ReadyIndex(q, now) ==
    LET ready == {i \in DOMAIN q : q[i].next_retry_at <= now}
        Rank(i) == IF q[i].is_final THEN 0 ELSE 1
    IN IF ready = {} THEN 0
       ELSE CHOOSE i \in ready : \A j \in ready :
                \/ Rank(i) < Rank(j)
                \/ (Rank(i) = Rank(j) /\ q[i].queued_at < q[j].queued_at)
                \/ (Rank(i) = Rank(j) /\ q[i].queued_at = q[j].queued_at /\ i <= j)

\* A pop that leaves the entry where it is.
PopKeeping(q, i) == q

\* RUN_INGEST_RETRY_QUEUE.pop(run_id, None) of the entry chosen
_pop_ready_ingest_retry_unlocked(q, i) == RemoveAt(q, i)

\* A requeue whose backoff doubles without end.
RequeueUncapped(q, run_id, entry, error, now) ==
    LET attempts == entry.attempts + 1
        backoff_seconds == RUN_INGEST_RETRY_INTERVAL_SECONDS * (2 ^ attempts)
    IN _trim_ingest_retry_queue_unlocked(
           QueuePut(q, run_id, [entry EXCEPT !.attempts = attempts,
                                            !.last_error = error,
                                            !.next_retry_at = now + backoff_seconds]))

\* _requeue_ingest_retry, on the queue; now is time.time() at the requeue.
_requeue_ingest_retry(q, run_id, entry, error, now) ==
    LET attempts == entry.attempts + 1
        backoff_seconds == Min(RUN_INGEST_RETRY_MAX_BACKOFF_SECONDS,
                               RUN_INGEST_RETRY_INTERVAL_SECONDS * (2 ^ Min(attempts, 6)))
    IN _trim_ingest_retry_queue_unlocked(
           QueuePut(q, run_id, [entry EXCEPT !.attempts = attempts,
                                            !.last_error = error,
                                            !.next_retry_at = now + backoff_seconds]))

\* A debounce test that knows the unchanged signature only.
AnswersFromCacheUnchanged(tracker, signature, stats, is_final, now) ==
    /\ ~is_final
    /\ tracker # <<>>
    /\ signature = tracker[1].signature
    /\ (now - tracker[1].last_processed_at) < RUN_INGEST_MIN_PROCESS_SECONDS

\* The debounce test of ingest_run: a run that is not final and has a cached
\* response is answered from the cache when it was processed a moment ago and
\* either nothing changed or too few rows were added.

AnswersFromCache(tracker, signature, stats, is_final, now) ==
    LET last_processed_at == TrackerGet(tracker, "last_processed_at")
        last_total == TrackerGet(tracker, "last_total")
        same_signature == tracker # <<>> /\ signature = tracker[1].signature
        recent_process == (now - last_processed_at) < RUN_INGEST_MIN_PROCESS_SECONDS
        growth == Max(0, stats.total - last_total)
    IN /\ ~is_final
       /\ tracker # <<>>
       /\ \/ (same_signature /\ recent_process)
          \/ (recent_process /\ growth < RUN_INGEST_MIN_NEW_ITEMS)

\* do_refresh, in ingest_run and in the retry worker
DoRefresh(tracker, is_final, now) ==
    is_final \/ (now - TrackerGet(tracker, "last_refresh_at") >= RUN_INGEST_REFRESH_SECONDS)

\* The exceptions of the Store: an exception is its type and its message.
DB_RETRY_ATTEMPTS == 4

DB_LOCK_TOKENS ==
    {"database is locked", "database schema is locked", "queuepool limit",
     "connection timed out", "db_write_lock_timeout"}

\* The exceptions an attempt ends with.
DatabaseIsLocked ==
    [type |-> "OperationalError",
     message |-> <<"(sqlite3.OperationalError) ", "database is locked">>]
QueuePoolTimeout ==
    [type |-> "SQLAlchemyTimeoutError",
     message |-> <<"QueuePool limit", " of size 5 overflow 10 reached, ",
                   "connection timed out", ", timeout 30.00">>]
WriteLockTimeout == [type |-> "RuntimeError", message |-> <<"db_write_lock_timeout">>]
IntegrityError ==
    [type |-> "IntegrityError",
     message |-> <<"(sqlite3.IntegrityError) UNIQUE constraint failed: jobs_raw.job_key">>]
NoSuchTable ==
    [type |-> "OperationalError",
     message |-> <<"(sqlite3.OperationalError) no such table: jobs_raw">>]

\* What operation(db) raises.
OperationErrors == {DatabaseIsLocked, QueuePoolTimeout, IntegrityError, NoSuchTable}

\* str(exc).lower(), chunk by chunk
LowerChunk(c) == IF c = "QueuePool limit" THEN "queuepool limit" ELSE c

\* An error check that takes every error for contention.
IsRetryableAlways(exc) == TRUE

is_retryable_db_error(exc) ==
    \/ exc.type = "SQLAlchemyTimeoutError"
    \/ /\ exc.type = "OperationalError"
       /\ \E i \in DOMAIN exc.message : LowerChunk(exc.message[i]) \in DB_LOCK_TOKENS
    \/ \E i \in DOMAIN exc.message : LowerChunk(exc.message[i]) \in DB_LOCK_TOKENS

\* A trigger that starts a worker whatever the flag says.
TriggerUnguarded(wanted) ==
    /\ BACKGROUND_REFRESH_IN_FLIGHT' = (BACKGROUND_REFRESH_IN_FLIGHT \/ wanted)
    /\ refresh_threads' = IF wanted THEN refresh_threads + 1 ELSE refresh_threads

\* if do_refresh: trigger_background_refresh(..., mode="refresh"): with the
\* flag set the call returns at once; otherwise it sets the flag and starts
\* the _worker thread.
trigger_background_refresh(wanted) ==
    /\ BACKGROUND_REFRESH_IN_FLIGHT' = (BACKGROUND_REFRESH_IN_FLIGHT \/ wanted)
    /\ refresh_threads' = IF wanted /\ ~BACKGROUND_REFRESH_IN_FLIGHT
                          THEN refresh_threads + 1 ELSE refresh_threads

\* Submissions the extension makes: a run in progress that grows by one row
\* and by RUN_INGEST_MIN_NEW_ITEMS rows and then completes, and a second run.
RunRowsOf(n) == [i \in 1..n |-> IF i = 1 THEN JobRowFresh ELSE JobRowStale]
RunOf(status, n) ==
    [status |-> status, keyword |-> <<"python">>, jobs |-> RunRowsOf(n), talent |-> <<>>]
RunSubmissions ==
    { [run_id |-> "run-1", run |-> RunOf(<<"running">>, 1)],
      [run_id |-> "run-1", run |-> RunOf(<<"running">>, 2)],
      [run_id |-> "run-1", run |-> RunOf(<<"running">>, 1 + RUN_INGEST_MIN_NEW_ITEMS)],
      [run_id |-> "run-1", run |-> RunOf(<<" ", "Completed">>, 2)],
      [run_id |-> "run-2", run |-> RunOf(<<"running">>, 1)] }

\* How a call of _persist_run_ingest ends: it returns (<<>>), or it raises
\* before it wrote anything: the write permit timed out, or the Store refused
\* the rows.
PersistOutcomes == {<<>>, <<WriteLockTimeout>>, <<IntegrityError>>}

\* What a failed _persist_run_ingest leaves in the Store.
PersistFailed(run_id, run, outcome) ==
    UNCHANGED <<jobs_raw, talent_raw, keyword_recs, job_opps, events>>

\* What ingest_run leaves for the caller: kind tells which return statement
\* answered ("debounced", "persisted", "queued"); the other fields record the
\* submission.
Returned(sid, run_id, run, kind, response, at, error) ==
    [sid |-> sid, run_id |-> run_id, status |-> run.status,
     total |-> _run_payload_stats(run).total, kind |-> kind, response |-> response,
     at |-> at, error |-> error]

\* POST /v1/ingest/run for one payload.
IngestRunOf(run_id, run, tracker, is_final, outcome) ==
    IF AnswersFromCache(tracker, _build_run_signature(run), _run_payload_stats(run),
                        is_final, clock)
    THEN /\ last_return' = Returned(next_sid, run_id, run, "debounced",
                                    tracker[1].last_response, clock, <<>>)
         /\ UNCHANGED <<jobs_raw, talent_raw, keyword_recs, job_opps, events,
                        RUN_INGEST_TRACKER, RUN_INGEST_RETRY_QUEUE,
                        BACKGROUND_REFRESH_IN_FLIGHT, refresh_threads>>
    ELSE IF outcome = <<>>
    THEN /\ ingest_run_payload(run_id, run, FALSE, next_sid)
         /\ RUN_INGEST_TRACKER' =
                _record_run_ingest_success(
                    RUN_INGEST_TRACKER, run_id, _build_run_signature(run),
                    _run_payload_stats(run), RunIngestResponse(run_id, run, clock),
                    clock, is_final, DoRefresh(tracker, is_final, clock), clock)
         /\ trigger_background_refresh(DoRefresh(tracker, is_final, clock))
         /\ last_return' = Returned(next_sid, run_id, run, "persisted",
                                    RunIngestResponse(run_id, run, clock), clock, <<>>)
         /\ UNCHANGED RUN_INGEST_RETRY_QUEUE
    ELSE /\ PersistFailed(run_id, run, outcome)
         /\ RUN_INGEST_RETRY_QUEUE' =
                _enqueue_run_ingest_retry(
                    RUN_INGEST_RETRY_QUEUE, run_id,
                    [run_id |-> run_id, run |-> run, sid |-> next_sid],
                    run, is_final, outcome[1].message, clock)
         /\ last_return' = Returned(next_sid, run_id, run, "queued",
                                    IF tracker # <<>> /\ ~is_final
                                    THEN tracker[1].last_response
                                    ELSE _default_run_ingest_response(run_id, run, clock),
                                    clock, outcome[1].message)
         /\ UNCHANGED <<RUN_INGEST_TRACKER, BACKGROUND_REFRESH_IN_FLIGHT, refresh_threads>>

ingest_run ==
    /\ next_sid <= MaxSubmissions
    /\ \E payload \in RunSubmissions, outcome \in PersistOutcomes :
         IngestRunOf(payload.run_id, payload.run,
                     TrackerCopy(RUN_INGEST_TRACKER, payload.run_id),
                     _is_final_run(payload.run), outcome)
    /\ next_sid' = next_sid + 1
    /\ UNCHANGED <<fs, ingested_files, utcnow, scan_result, fs_touched, retry_worker, clock>>
    /\ UNCHANGED <<lockVars, readVars, retryVars, callVars, scanVars>>

\* ingest_retry_worker_loop, from the top of an iteration to the entry it
\* popped: the entry, the time, and do_refresh as the tracker has it.
ingest_retry_worker_pop ==
    /\ retry_worker.pc = "wait"
    /\ ReadyIndex(RUN_INGEST_RETRY_QUEUE, clock) # 0
    /\ retry_worker' =
           [pc |-> "persist",
            entry |-> <<RUN_INGEST_RETRY_QUEUE[ReadyIndex(RUN_INGEST_RETRY_QUEUE, clock)]>>,
            now |-> clock,
            do_refresh |->
                LET e == RUN_INGEST_RETRY_QUEUE[ReadyIndex(RUN_INGEST_RETRY_QUEUE, clock)]
                IN DoRefresh(TrackerCopy(RUN_INGEST_TRACKER, e.run_id), e.is_final, clock),
            last |-> retry_worker.last]
    /\ RUN_INGEST_RETRY_QUEUE' =
           _pop_ready_ingest_retry_unlocked(RUN_INGEST_RETRY_QUEUE,
                                            ReadyIndex(RUN_INGEST_RETRY_QUEUE, clock))
    /\ UNCHANGED <<storeVars, RUN_INGEST_TRACKER, BACKGROUND_REFRESH_IN_FLIGHT,
                   refresh_threads, clock, next_sid, last_return>>
    /\ UNCHANGED <<lockVars, readVars, retryVars, callVars, scanVars>>

\* The worker between two iterations; last keeps how the iteration for entry
\* ended and how many attempts had failed before it.
WorkerDone(entry, result, error) ==
    [pc |-> "wait", entry |-> <<>>, now |-> 0, do_refresh |-> FALSE,
     last |-> [result |-> result, sid |-> entry.payload.sid, run_id |-> entry.run_id,
               attempts |-> entry.attempts, is_final |-> entry.is_final,
               error |-> error]]

\* The rest of the iteration: persist the popped payload; record the success,
\* or requeue the entry with its backoff.
RetryPersistOf(entry, now, do_refresh, outcome) ==
    IF outcome = <<>>
    THEN /\ ingest_run_payload(entry.run_id, entry.payload.run, FALSE, entry.payload.sid)
         /\ RUN_INGEST_TRACKER' =
                _record_run_ingest_success(
                    RUN_INGEST_TRACKER, entry.run_id,
                    _build_run_signature(entry.payload.run),
                    _run_payload_stats(entry.payload.run),
                    RunIngestResponse(entry.run_id, entry.payload.run, clock),
                    now, entry.is_final, do_refresh, clock)
         /\ trigger_background_refresh(do_refresh)
         /\ retry_worker' = WorkerDone(entry, "persisted", <<>>)
         /\ UNCHANGED RUN_INGEST_RETRY_QUEUE
    ELSE /\ PersistFailed(entry.run_id, entry.payload.run, outcome)
         /\ RUN_INGEST_RETRY_QUEUE' =
                _requeue_ingest_retry(RUN_INGEST_RETRY_QUEUE, entry.run_id, entry,
                                      outcome[1].message, clock)
         /\ retry_worker' = WorkerDone(entry, "requeued", outcome[1].message)
         /\ UNCHANGED <<RUN_INGEST_TRACKER, BACKGROUND_REFRESH_IN_FLIGHT, refresh_threads>>

ingest_retry_worker_persist ==
    /\ retry_worker.pc = "persist"
    /\ \E outcome \in PersistOutcomes :
         RetryPersistOf(retry_worker.entry[1], retry_worker.now, retry_worker.do_refresh,
                        outcome)
    /\ UNCHANGED <<fs, ingested_files, utcnow, scan_result, fs_touched, clock, next_sid,
                   last_return>>
    /\ UNCHANGED <<lockVars, readVars, retryVars, callVars, scanVars>>

\* The thread trigger_background_refresh starts with mode="refresh": the
\* refresh runs or fails, and the single-flight flag is cleared.
background_refresh_worker ==
    /\ refresh_threads > 0
    /\ \E ok \in BOOLEAN :
         IF ok
         THEN /\ keyword_recs' = RefreshKeywords(keyword_recs, jobs_raw, talent_raw, utcnow)
              /\ job_opps' = _refresh_job_opportunities(
                                 job_opps, jobs_raw,
                                 RefreshKeywords(keyword_recs, jobs_raw, talent_raw, utcnow),
                                 utcnow)
         ELSE UNCHANGED <<keyword_recs, job_opps>>
    /\ BACKGROUND_REFRESH_IN_FLIGHT' = FALSE
    /\ refresh_threads' = refresh_threads - 1
    /\ UNCHANGED <<fs, ingested_files, jobs_raw, talent_raw, events, utcnow, scan_result,
                   fs_touched, RUN_INGEST_TRACKER, RUN_INGEST_RETRY_QUEUE, retry_worker,
                   clock, next_sid, last_return>>
    /\ UNCHANGED <<lockVars, readVars, retryVars, callVars, scanVars>>

\* Seconds pass.  The instants told apart are the start, the end of the first
\* backoff of the retry queue, and the end of the debounce window.
Instants ==
    {StartTime, StartTime + RUN_INGEST_RETRY_INTERVAL_SECONDS * 2,
     StartTime + RUN_INGEST_MIN_PROCESS_SECONDS}

Advance ==
    /\ \E t \in Instants : t > clock /\ clock' = t
    /\ UNCHANGED <<storeVars, RUN_INGEST_TRACKER, RUN_INGEST_RETRY_QUEUE,
                   BACKGROUND_REFRESH_IN_FLIGHT, refresh_threads, retry_worker, next_sid,
                   last_return>>
    /\ UNCHANGED <<lockVars, readVars, retryVars, callVars, scanVars>>

RunInit ==
    /\ RUN_INGEST_TRACKER = <<>>
    /\ RUN_INGEST_RETRY_QUEUE = <<>>
    /\ BACKGROUND_REFRESH_IN_FLIGHT = FALSE
    /\ refresh_threads = 0
    /\ retry_worker = [pc |-> "wait", entry |-> <<>>, now |-> 0, do_refresh |-> FALSE,
                       last |-> [result |-> "none", sid |-> 0, run_id |-> "",
                                 attempts |-> 0, is_final |-> FALSE, error |-> <<>>]]
    /\ clock = StartTime
    /\ next_sid = 1
    /\ last_return = [sid |-> 0, run_id |-> "", status |-> <<>>, total |-> 0,
                      kind |-> "none",
                      response |-> [run_id |-> "", keyword |-> <<>>, jobs_ingested |-> 0,
                                    talent_ingested |-> 0, projects_ingested |-> 0,
                                    updated_metrics_at |-> 0],
                      at |-> 0, error |-> <<>>]

----------------------------------------------------------------------------
(* The write permit (main.py): who is inside a Store operation, and who    *)
(* holds DB_WRITE_LOCK.  What an operation writes is told by the actions   *)
(* of the Store above; here the Store's content stays as it is.            *)

\* The callers of the Store that write to it.
DbCallers ==
    {"ingest_run", "ingest_retry_worker", "update_queue_telemetry",
     "orchestrator_scheduler", "background_refresh", "ingest_scan"}

\* The write argument of the caller's run_db_operation_with_new_session:
\* True in _persist_run_ingest and in update_queue_telemetry, False in
\* run_orchestrator_cycle_sync, run_orchestrator_refresh_sync and ingest_scan.
WritePermitAsked(c) == c \in {"ingest_run", "ingest_retry_worker", "update_queue_telemetry"}

\* run_db_operation_with_new_session is called: with write=True the caller
\* goes for the permit, otherwise it opens its session at once.
db_operation_start ==
    /\ \E c \in DbCallers :
         /\ db_pc[c] = "idle"
         /\ db_pc' = [db_pc EXCEPT ![c] = IF WritePermitAsked(c) THEN "acquire"
                                          ELSE "operation"]
    /\ UNCHANGED <<DB_WRITE_LOCK, lock_acquired>>
    /\ UNCHANGED <<storeVars, runVars, readVars, retryVars, callVars, scanVars>>

\* DB_WRITE_LOCK.acquire(timeout=...) returns True
db_write_lock_acquire ==
    /\ \E c \in DbCallers :
         /\ db_pc[c] = "acquire"
         /\ ~DB_WRITE_LOCK
         /\ DB_WRITE_LOCK' = TRUE
         /\ lock_acquired' = [lock_acquired EXCEPT ![c] = TRUE]
         /\ db_pc' = [db_pc EXCEPT ![c] = "operation"]
    /\ UNCHANGED <<storeVars, runVars, readVars, retryVars, callVars, scanVars>>

\* DB_WRITE_LOCK.acquire(timeout=...) returns False: the permit stayed taken,
\* RuntimeError("db_write_lock_timeout") is raised and, with retry_attempts=1,
\* reaches the caller.
db_write_lock_timeout ==
    /\ \E c \in DbCallers :
         /\ db_pc[c] = "acquire"
         /\ DB_WRITE_LOCK
         /\ db_pc' = [db_pc EXCEPT ![c] = "idle"]
    /\ UNCHANGED <<DB_WRITE_LOCK, lock_acquired>>
    /\ UNCHANGED <<storeVars, runVars, readVars, retryVars, callVars, scanVars>>

\* operation(db) returns or raises; the finally clause closes the session and
\* releases the permit if this caller took it.  The scheduler goes on to
\* run_llm_analysis_cycle, which persists its analyses in a session of its own.
db_operation_end ==
    /\ \E c \in DbCallers :
         /\ db_pc[c] = "operation"
         /\ db_pc' = [db_pc EXCEPT ![c] = IF c = "orchestrator_scheduler"
                                          THEN "llm_persist" ELSE "idle"]
         /\ DB_WRITE_LOCK' = IF lock_acquired[c] THEN FALSE ELSE DB_WRITE_LOCK
         /\ lock_acquired' = [lock_acquired EXCEPT ![c] = FALSE]
    /\ UNCHANGED <<storeVars, runVars, readVars, retryVars, callVars, scanVars>>

\* run_llm_analysis_cycle has committed its analyses.
llm_persist_end ==
    /\ db_pc["orchestrator_scheduler"] = "llm_persist"
    /\ db_pc' = [db_pc EXCEPT !["orchestrator_scheduler"] = "idle"]
    /\ UNCHANGED <<DB_WRITE_LOCK, lock_acquired>>
    /\ UNCHANGED <<storeVars, runVars, readVars, retryVars, callVars, scanVars>>

LockInit ==
    /\ DB_WRITE_LOCK = FALSE
    /\ db_pc = [c \in DbCallers |-> "idle"]
    /\ lock_acquired = [c \in DbCallers |-> FALSE]

----------------------------------------------------------------------------
(* Reads with a fallback (main.py): READ_CACHE and the endpoints over it.  *)

\* ORDER BY apply_now DESC, fit_score DESC, opportunity_score DESC, rows of
\* equal rank in the order of the table.
RanksBefore(a, b) ==
    \/ (a.apply_now /\ ~b.apply_now)
    \/ (a.apply_now = b.apply_now /\ a.fit_score > b.fit_score)
    \/ (a.apply_now = b.apply_now /\ a.fit_score = b.fit_score
        /\ a.opportunity_score > b.opportunity_score)

RECURSIVE InsertByRank(_, _)
InsertByRank(sorted, e) ==
    IF sorted = <<>> THEN <<e>>
    ELSE IF RanksBefore(e, Head(sorted)) THEN <<e>> \o sorted
    ELSE <<Head(sorted)>> \o InsertByRank(Tail(sorted), e)

RECURSIVE SortByRank(_, _)
SortByRank(sorted, rest) ==
    IF rest = <<>> THEN sorted
    ELSE SortByRank(InsertByRank(sorted, Head(rest)), Tail(rest))

\* OrchestratorService.get_job_opportunities: scores are kept in hundredths,
\* which round(x, 2) leaves as they are.
get_job_opportunities(opps, limit, safe_only) ==
    LET rows == SortByRank(<<>>, SelectSeq(opps, LAMBDA o : ~safe_only \/ o.safety_score >= 7000))
        kept == SubSeq(rows, 1, Min(limit, Len(rows)))
    IN [i \in DOMAIN kept |->
           [job_key |-> kept[i].job_key, title |-> kept[i].title,
            keyword |-> kept[i].keyword,
            opportunity_score |-> kept[i].opportunity_score,
            safety_score |-> kept[i].safety_score, fit_score |-> kept[i].fit_score,
            apply_now |-> kept[i].apply_now, reasons |-> kept[i].reasons]]

\* The requests GET /v1/opportunities/jobs is called with.
ReadRequests ==
    {[limit |-> 100, safe_only |-> FALSE], [limit |-> 100, safe_only |-> TRUE],
     [limit |-> 0, safe_only |-> FALSE]}

\* limit = max(1, min(limit, 500))
ClampLimit(limit) == Max(1, Min(limit, 500))

\* f"v1_opportunities_jobs_{limit}_{int(bool(safe_only))}"
JobsCacheKey(limit, safe_only) ==
    <<"v1_opportunities_jobs", limit, IF safe_only THEN 1 ELSE 0>>

CacheKeys == {JobsCacheKey(ClampLimit(r.limit), r.safe_only) : r \in ReadRequests}

\* READ_CACHE.get(cache_key, None): <<>> for None, else the value in a tuple.
_get_cached_read(cache, cache_key) == cache[cache_key]

\* A cache that keeps nothing.
SetCachedReadNothing(cache, cache_key, value) == cache

\* READ_CACHE[cache_key] = value
_set_cached_read(cache, cache_key, value) == [cache EXCEPT ![cache_key] = <<value>>]

\* run_db_read_with_fallback: the query succeeded with result, or raised.
run_db_read_with_fallback(cache_key, succeeded, result, default) ==
    IF succeeded
    THEN /\ READ_CACHE' = _set_cached_read(READ_CACHE, cache_key, result)
         /\ last_read' = [cache_key |-> cache_key, succeeded |-> TRUE, kind |-> "live",
                          value |-> result]
         /\ last_success' = [last_success EXCEPT ![cache_key] = <<result>>]
    ELSE /\ last_read' =
                IF _get_cached_read(READ_CACHE, cache_key) # <<>>
                THEN [cache_key |-> cache_key, succeeded |-> FALSE, kind |-> "cached",
                      value |-> _get_cached_read(READ_CACHE, cache_key)[1]]
                ELSE [cache_key |-> cache_key, succeeded |-> FALSE, kind |-> "default",
                      value |-> default]
         /\ UNCHANGED <<READ_CACHE, last_success>>

\* GET /v1/opportunities/jobs
get_opportunity_jobs ==
    /\ \E r \in ReadRequests, succeeded \in BOOLEAN :
         run_db_read_with_fallback(
             JobsCacheKey(ClampLimit(r.limit), r.safe_only), succeeded,
             get_job_opportunities(job_opps, ClampLimit(r.limit), r.safe_only), <<>>)
    /\ UNCHANGED <<storeVars, runVars, lockVars, retryVars, callVars, scanVars>>

ReadInit ==
    /\ READ_CACHE = [k \in CacheKeys |-> <<>>]
    /\ last_read = [cache_key |-> <<>>, succeeded |-> FALSE, kind |-> "none", value |-> <<>>]
    /\ last_success = [k \in CacheKeys |-> <<>>]

----------------------------------------------------------------------------
(* Retry with backoff (main.py): run_with_retry around _run_once of        *)
(* run_db_operation_with_new_session.  An exception is its type and its    *)
(* message, the message cut into chunks so that a token of DB_LOCK_TOKENS  *)
(* occurring in it is one chunk.                                           *)

\* The attempts argument of run_with_retry: None, 0, 1, 2.
AttemptsGiven == {NoneInt, 0, 1, 2}

\* max_attempts = max(1, attempts if attempts is not None else DB_RETRY_ATTEMPTS)
MaxAttemptsOf(attempts) == Max(1, IF attempts # NoneInt THEN attempts ELSE DB_RETRY_ATTEMPTS)

\* run_with_retry(operation_name, _run_once, attempts) is called.
run_with_retry ==
    /\ retry_call.pc \in {"idle", "returned", "raised"}
    /\ \E attempts \in AttemptsGiven, write \in BOOLEAN :
         retry_call' = [pc |-> "run_once", write |-> write,
                        max_attempts |-> MaxAttemptsOf(attempts), attempt |-> 0,
                        calls |-> 0, acquired |-> 0, lock_acquired |-> FALSE,
                        last_error |-> <<>>, result |-> 0, raised |-> <<>>]
    /\ UNCHANGED <<storeVars, runVars, lockVars, readVars, callVars, scanVars>>

\* An except clause that goes round again whatever the number of attempts
\* made: a writer whose wait timed out waits for the permit once more.
RetryExceptWaitsAgain(call, exc) ==
    IF ~is_retryable_db_error(exc)
    THEN [call EXCEPT !.pc = "raised", !.last_error = <<exc>>, !.raised = <<exc>>,
                      !.lock_acquired = FALSE]
    ELSE [call EXCEPT !.pc = "run_once", !.last_error = <<exc>>,
                      !.attempt = call.attempt + 1, !.lock_acquired = FALSE]

\* except Exception as exc, in the loop of run_with_retry: raise, or sleep
\* and go round again.
RetryExcept(call, exc) ==
    IF ~is_retryable_db_error(exc) \/ call.attempt >= call.max_attempts - 1
    THEN [call EXCEPT !.pc = "raised", !.last_error = <<exc>>, !.raised = <<exc>>,
                      !.lock_acquired = FALSE]
    ELSE [call EXCEPT !.pc = "run_once", !.last_error = <<exc>>,
                      !.attempt = call.attempt + 1, !.lock_acquired = FALSE]

\* return fn(): _run_once starts.  With write it takes the permit, or its
\* wait for the permit times out and it raises db_write_lock_timeout.
run_once_begin ==
    /\ retry_call.pc = "run_once"
    /\ IF retry_call.write
       THEN IF ~DB_WRITE_LOCK
            THEN /\ DB_WRITE_LOCK' = TRUE
                 /\ retry_call' = [retry_call EXCEPT !.pc = "operation",
                                                     !.calls = retry_call.calls + 1,
                                                     !.acquired = retry_call.acquired + 1,
                                                     !.lock_acquired = TRUE]
            ELSE /\ retry_call' = RetryExcept([retry_call EXCEPT
                                                  !.calls = retry_call.calls + 1],
                                              WriteLockTimeout)
                 /\ UNCHANGED DB_WRITE_LOCK
       ELSE /\ retry_call' = [retry_call EXCEPT !.pc = "operation",
                                                !.calls = retry_call.calls + 1]
            /\ UNCHANGED DB_WRITE_LOCK
    /\ UNCHANGED <<db_pc, lock_acquired>>
    /\ UNCHANGED <<storeVars, runVars, readVars, callVars, scanVars>>

\* A _run_once whose finally clause is not there: the permit is released
\* when operation(db) returns, and kept when it raises.
run_once_end_no_finally ==
    /\ retry_call.pc = "operation"
    /\ \/ /\ retry_call' = [retry_call EXCEPT !.pc = "returned",
                                              !.result = retry_call.calls,
                                              !.lock_acquired = FALSE]
          /\ DB_WRITE_LOCK' = IF retry_call.lock_acquired THEN FALSE ELSE DB_WRITE_LOCK
       \/ /\ \E exc \in OperationErrors : retry_call' = RetryExcept(retry_call, exc)
          /\ UNCHANGED DB_WRITE_LOCK
    /\ UNCHANGED <<db_pc, lock_acquired>>
    /\ UNCHANGED <<storeVars, runVars, readVars, callVars, scanVars>>

\* operation(db) returns or raises; finally the session is closed and the
\* permit released.  The result is told by the call that gave it.
run_once_end ==
    /\ retry_call.pc = "operation"
    /\ \/ retry_call' = [retry_call EXCEPT !.pc = "returned",
                                           !.result = retry_call.calls,
                                           !.lock_acquired = FALSE]
       \/ \E exc \in OperationErrors : retry_call' = RetryExcept(retry_call, exc)
    /\ DB_WRITE_LOCK' = IF retry_call.lock_acquired THEN FALSE ELSE DB_WRITE_LOCK
    /\ UNCHANGED <<db_pc, lock_acquired>>
    /\ UNCHANGED <<storeVars, runVars, readVars, callVars, scanVars>>

RetryInit ==
    retry_call = [pc |-> "idle", write |-> FALSE, max_attempts |-> 1, attempt |-> 0,
                  calls |-> 0, acquired |-> 0, lock_acquired |-> FALSE,
                  last_error |-> <<>>, result |-> 0, raised |-> <<>>]

----------------------------------------------------------------------------
(* The scheduler (main.orchestrator_scheduler_loop): every                 *)
(* ORCHESTRATOR_CYCLE_SECONDS it runs run_orchestrator_cycle_sync, logs    *)
(* what that raises, and goes on with run_llm_analysis_cycle, which        *)
(* returns at once while the bridge is unreachable.                        *)

\* asyncio.sleep(interval_seconds) is over: the loop starts its next cycle,
\* and run_db_operation_with_new_session (write=False) opens its session.
scheduler_wakes ==
    /\ db_pc["orchestrator_scheduler"] = "idle"
    /\ db_pc' = [db_pc EXCEPT !["orchestrator_scheduler"] = "operation"]
    /\ UNCHANGED <<DB_WRITE_LOCK, lock_acquired>>
    /\ UNCHANGED <<storeVars, runVars, readVars, retryVars, callVars, scanVars>>

\* run_orchestrator_cycle_sync in the loop: scan_and_ingest in that session;
\* what it raises is logged by the loop, which then sleeps.
run_orchestrator_cycle_sync ==
    /\ db_pc["orchestrator_scheduler"] = "operation"
    /\ Len(events) < MaxEvents
    /\ \E order \in ScanOrders(fs) :
         ScanRefresh(ScanFiles(ScanStart, order, fs, utcnow))
    /\ db_pc' = [db_pc EXCEPT !["orchestrator_scheduler"] = "idle"]
    /\ UNCHANGED <<fs, utcnow>>
    /\ UNCHANGED <<DB_WRITE_LOCK, lock_acquired>>
    /\ UNCHANGED <<runVars, readVars, retryVars, callVars, scanVars>>

----------------------------------------------------------------------------
(* Decision engine (llm/decision_engine.py).  A reason is the fixed text   *)
(* of its f-string; the analyses carry no risk flags.                      *)

\* DecisionEngine._classify
_classify(analysis) ==
    LET score == analysis.composite_score
        action == analysis.recommended_action
        rule ==
            IF action = "SKIP"
            THEN [label |-> "COLD", sensitivity |-> "flexible", reason |-> <<"Low match">>]
            ELSE IF action = "APPLY" /\ score >= 7000
            THEN [label |-> "HOT", sensitivity |-> "urgent", reason |-> <<"High match">>]
            ELSE IF action = "APPLY" /\ score >= 5500
            THEN [label |-> "WARM", sensitivity |-> "normal", reason |-> <<"Good match">>]
            ELSE IF action = "WATCH"
            THEN [label |-> IF score >= 5000 THEN "WARM" ELSE "COLD",
                  sensitivity |-> IF score >= 5000 THEN "normal" ELSE "flexible",
                  reason |-> <<"Watch">>]
            ELSE [label |-> "COLD", sensitivity |-> "flexible", reason |-> <<"Low score">>]
        boost == /\ analysis.competition_signal = "low"
                 /\ analysis.technical_fit >= 70
                 /\ rule.label # "HOT"
                 /\ action # "SKIP"
        label == IF ~boost THEN rule.label
                 ELSE IF rule.label = "WARM" THEN "HOT" ELSE "WARM"
    IN [job_key |-> analysis.job_key, title |-> analysis.title,
        composite_score |-> score, recommended_action |-> action,
        priority_rank |-> 0, priority_label |-> label,
        time_sensitivity |-> IF ~boost THEN rule.sensitivity
                             ELSE IF label = "HOT" THEN "urgent" ELSE "normal",
        reason |-> IF boost THEN <<"Low competition opportunity! ">> \o rule.reason
                   ELSE rule.reason,
        analysis |-> analysis]

\* [d for d in decisions if ...]
RECURSIVE SelectDecisions(_, _)
SelectDecisions(decisions, skip) ==
    IF decisions = <<>> THEN <<>>
    ELSE IF (Head(decisions).recommended_action = "SKIP") = skip
    THEN <<Head(decisions)>> \o SelectDecisions(Tail(decisions), skip)
    ELSE SelectDecisions(Tail(decisions), skip)

\* analyses_for_llm of _llm_rerank: the job keys the prompt carries
RECURSIVE analyses_for_llm(_, _)
analyses_for_llm(valid, analyses) ==
    IF valid = <<>> THEN <<>>
    ELSE IF \E i \in 1..Len(analyses) : analyses[i].job_key = Head(valid).job_key
    THEN <<Head(valid).job_key>> \o analyses_for_llm(Tail(valid), analyses)
    ELSE analyses_for_llm(Tail(valid), analyses)

\* A key a ranking does not carry.
Absent == "<absent>"

\* rank_map[job_key] of _llm_rerank: the last ranking of the key, 0 for none
RECURSIVE rank_map(_, _, _)
rank_map(rankings, job_key, i) ==
    IF i = 0 THEN 0
    ELSE IF rankings[i].job_key = job_key THEN i
    ELSE rank_map(rankings, job_key, i - 1)

\* The loop body of _llm_rerank: the ranking of the key merged into a decision.
MergeRanking(d, rankings) ==
    LET at == rank_map(rankings, d.job_key, Len(rankings))
    IN IF at = 0 THEN d
       ELSE LET r == rankings[at]
            IN [d EXCEPT !.priority_label =
                             IF r.priority_label = Absent THEN d.priority_label
                             ELSE r.priority_label,
                         !.time_sensitivity =
                             IF r.time_sensitivity = Absent THEN d.time_sensitivity
                             ELSE r.time_sensitivity,
                         !.reason = IF r.reason # <<>> THEN r.reason ELSE d.reason]

\* A re-ranking that returns the decisions it sent and no others.
RerankDropsSkipped(decisions, analyses, rankings) ==
    LET valid == SelectDecisions(decisions, FALSE)
    IN [i \in 1..Len(valid) |-> MergeRanking(valid[i], rankings)]

\* DecisionEngine._llm_rerank, given the rankings the collaborator answered
_llm_rerank(decisions, analyses, rankings) ==
    LET valid == SelectDecisions(decisions, FALSE)
        skipped == SelectDecisions(decisions, TRUE)
    IN [i \in 1..Len(valid) |-> MergeRanking(valid[i], rankings)] \o skipped

\* priority_order.get(d.priority_label, 3)
priority_order(label) ==
    CASE label = "HOT" -> 0 [] label = "WARM" -> 1 [] label = "COLD" -> 2 [] OTHER -> 3

\* decisions.sort(key=(priority_order, -composite_score)): stable
RECURSIVE InsertByPriority(_, _)
InsertByPriority(sorted, d) ==
    IF sorted = <<>> THEN <<d>>
    ELSE LET h == Head(sorted)
         IN IF \/ priority_order(h.priority_label) < priority_order(d.priority_label)
               \/ /\ priority_order(h.priority_label) = priority_order(d.priority_label)
                  /\ h.composite_score >= d.composite_score
            THEN <<h>> \o InsertByPriority(Tail(sorted), d)
            ELSE <<d>> \o sorted

RECURSIVE SortByPriority(_)
SortByPriority(decisions) ==
    IF decisions = <<>> THEN <<>>
    ELSE InsertByPriority(SortByPriority(Tail(decisions)), Head(decisions))

\* sum(1 for d in decisions if d.<field> == value)
CountDecisions(decisions, field, value) ==
    Cardinality({i \in 1..Len(decisions) : decisions[i][field] = value})

\* The reply of the collaborator to the ranking call: rankings, or LLMError.
LLMErrorReply == [failed |-> TRUE, rankings |-> <<>>]

\* DecisionEngine.decide
decide(analyses, use_llm_ranking, reply, now) ==
    LET classified == [i \in 1..Len(analyses) |-> _classify(analyses[i])]
        apply_watch == SelectDecisions(classified, FALSE)
        decisions ==
            IF use_llm_ranking /\ Len(apply_watch) >= 2 /\ ~reply.failed
            THEN _llm_rerank(classified, analyses, reply.rankings)
            ELSE classified
        sorted == SortByPriority(decisions)
        ranked == [i \in 1..Len(sorted) |-> [sorted[i] EXCEPT !.priority_rank = i]]
    IN [timestamp |-> now, total_jobs |-> Len(ranked),
        hot_count |-> CountDecisions(ranked, "priority_label", "HOT"),
        warm_count |-> CountDecisions(ranked, "priority_label", "WARM"),
        cold_count |-> CountDecisions(ranked, "priority_label", "COLD"),
        skip_count |-> CountDecisions(ranked, "recommended_action", "SKIP"),
        decisions |-> ranked]

----------------------------------------------------------------------------
(* Calls of the scoring functions on their own: the arguments are drawn    *)
(* from the values the listings of the inputs carry, the result is what    *)
(* the function returned.                                                  *)

\* The proposals column as listings carry it.
ProposalTexts ==
    {NoneStr, <<"0">>, <<"Less than ", "5">>, <<"5", " to ", "10">>, <<"10">>,
     <<"10", " to ", "15">>, <<"15">>, <<"15", " to ", "30">>, <<"30">>,
     <<"30", " to ", "50">>, <<"45">>, <<"50">>, <<"50", "+">>, <<"80">>}

\* Values of datetime.utcnow() and of scraped_at, in hours, on both sides of
\* the age thresholds 48, 72 and 120.
ScoreInstants == {0, 47, 48, 49, 72, 73, 120, 121}

\* compute_freshness_score(proposals_str, scraped_at) is called.
call_compute_freshness_score ==
    /\ fn_call.fn = ""
    /\ \E proposals_str \in ProposalTexts, now \in ScoreInstants,
          scraped_at \in {NoneTime} \cup ScoreInstants :
         fn_call' = [fn |-> "compute_freshness_score",
                     args |-> [proposals_str |-> proposals_str,
                               scraped_at |-> scraped_at, now |-> now],
                     result |-> compute_freshness_score(proposals_str, scraped_at, now)]
    /\ UNCHANGED <<storeVars, runVars, lockVars, readVars, retryVars, scanVars>>

\* The arguments of compute_safety_score: the client's spend, the proposal
\* count and the budget on both sides of the thresholds, descriptions of
\* each length class with and without a term of SUSPICIOUS_TERMS.
SpendValues == {NoneInt, 0, 100, 2500, 10000}
ProposalValues == {NoneInt, 8, 10, 15, 30, 80}
BudgetValues == {NoneInt, 5, 25, 600, 20000}
Descriptions ==
    {<<>>, <<"contact me.">>, <<"telegram me">>,
     <<"Detailed project scope with milestones and clear deliverables.">>,
     <<"Contact me on the platform to talk about the scope and the fee.">>,
     <<"Contact on telegram for upfront fee and crypto wallet transfer.">>,
     <<"Detailed project scope with milestones and clear deliverables.",
       "Contact me on the platform to talk about the scope and the fee.">>,
     <<"Detailed project scope with milestones and clear deliverables.",
       "Contact on telegram for upfront fee and crypto wallet transfer.">>,
     <<"long scope", "contact me.">>, <<"long scope", "telegram me">>}

\* compute_safety_score(payment_verified, client_spend, proposals,
\* budget_value, description) is called.
call_compute_safety_score ==
    /\ fn_call.fn = ""
    /\ \E payment_verified \in BOOLEAN, client_spend \in SpendValues,
          proposals \in ProposalValues, budget_value \in BudgetValues,
          description \in Descriptions :
         fn_call' = [fn |-> "compute_safety_score",
                     args |-> [payment_verified |-> payment_verified,
                               client_spend |-> client_spend, proposals |-> proposals,
                               budget_value |-> budget_value,
                               description |-> description],
                     result |-> compute_safety_score(payment_verified, client_spend,
                                                     proposals, budget_value,
                                                     description)]
    /\ UNCHANGED <<storeVars, runVars, lockVars, readVars, retryVars, scanVars>>

\* Judgments as from_llm_response builds them: every action the collaborator
\* may name (one of them not an action), little or much effort, high or low
\* scores.
Judgments ==
    {from_llm_response(<<"~01">>, <<"Python", " ", "ETL">>,
         [failed |-> FALSE, technical_fit |-> fit, budget_fit |-> fit,
          scope_clarity |-> fit, competition_signal |-> "low", client_quality |-> fit,
          recommended_action |-> action, estimated_effort_hours |-> hours]) :
       fit \in {20, 100}, action \in {"apply", "watch", "skip", "maybe"},
       hours \in {2, 5}}

\* Job dicts as main.py and router._row_to_dict build them: the client
\* verified or not, with or without spend, budgets on both sides of 10 and
\* 50, texts with seven profile skills or none.
JobDicts ==
    {[job_key |-> <<"~01">>, title |-> <<"Python", " ", "ETL">>,
      description |-> <<"Detailed project scope with milestones and clear deliverables.">>,
      budget_value |-> budget_value, client_spend |-> client_spend,
      payment_verified |-> payment_verified, proposals |-> proposals,
      skills |-> skills] :
       budget_value \in {NoneInt, 5, 25, 600}, client_spend \in {NoneInt, 0, 100},
       payment_verified \in BOOLEAN, proposals \in ProposalTexts \ {NoneStr},
       skills \in {<<>>, <<"n8n", " ", "fastapi", " ", "sql", " ", "langchain",
                            " ", "automation">>}}

\* JobAnalyzer._apply_hard_rules(analysis, job) is called.
call_apply_hard_rules ==
    /\ fn_call.fn = ""
    /\ \E analysis \in Judgments, job \in JobDicts :
         fn_call' = [fn |-> "_apply_hard_rules",
                     args |-> [analysis |-> analysis, job |-> job],
                     result |-> _apply_hard_rules(analysis, job)]
    /\ UNCHANGED <<storeVars, runVars, lockVars, readVars, retryVars, scanVars>>

\* The analyses of a batch of three listings: judgments that _classify
\* labels HOT, WARM and COLD, one of them SKIP.
DecideKeys == <<<<"~01">>, <<"~02">>, <<"~03">>>>
JudgmentKinds ==
    {<<"apply", 100>>, <<"apply", 60>>, <<"apply", 20>>, <<"watch", 60>>,
     <<"watch", 20>>, <<"skip", 100>>}
AnalysisBatches ==
    {[i \in 1..3 |->
         from_llm_response(DecideKeys[i], <<"Python", " ", "ETL">>,
             [failed |-> FALSE, technical_fit |-> kinds[i][2], budget_fit |-> kinds[i][2],
              scope_clarity |-> kinds[i][2], competition_signal |-> "low",
              client_quality |-> kinds[i][2], recommended_action |-> kinds[i][1],
              estimated_effort_hours |-> 2])] :
       kinds \in [1..3 -> JudgmentKinds]}

\* What the collaborator may answer to the ranking call: for each key no
\* ranking, a ranking with every field, one with a time sensitivity and an
\* empty reason only, or one whose priority_label is not one of the three the
\* prompt names (the merge takes r.get("priority_label") as it comes); or no
\* answer (LLMError).
RankingOf(job_key, choice) ==
    CASE choice = "hot" -> <<[job_key |-> job_key, priority_label |-> "HOT",
                              time_sensitivity |-> "urgent",
                              reason |-> <<"Strategic fit">>]>>
      [] choice = "sensitivity" -> <<[job_key |-> job_key, priority_label |-> Absent,
                                      time_sensitivity |-> "flexible", reason |-> <<>>]>>
      [] choice = "urgent" -> <<[job_key |-> job_key, priority_label |-> "urgent",
                                 time_sensitivity |-> "urgent",
                                 reason |-> <<"Strategic fit">>]>>
      [] OTHER -> <<>>
RankingReplies ==
    {LLMErrorReply}
    \cup {[failed |-> FALSE,
           rankings |-> RankingOf(DecideKeys[1], choices[1])
                        \o RankingOf(DecideKeys[2], choices[2])
                        \o RankingOf(DecideKeys[3], choices[3])] :
            choices \in [1..3 -> {"none", "hot", "sensitivity", "urgent"}]}

\* DecisionEngine._llm_rerank(decisions, analyses) is called on the
\* classified decisions of a batch; it returns, or chat_json raises LLMError.
call_llm_rerank ==
    /\ fn_call.fn = ""
    /\ \E analyses \in AnalysisBatches, reply \in RankingReplies :
         LET decisions == [i \in 1..Len(analyses) |-> _classify(analyses[i])]
         IN fn_call' = [fn |-> "_llm_rerank",
                        args |-> [decisions |-> decisions, analyses |-> analyses,
                                  reply |-> reply],
                        result |-> [raised |-> reply.failed,
                                    sent |-> analyses_for_llm(
                                                 SelectDecisions(decisions, FALSE),
                                                 analyses),
                                    decisions |-> IF reply.failed THEN <<>>
                                                  ELSE _llm_rerank(decisions, analyses,
                                                                   reply.rankings)]]
    /\ UNCHANGED <<storeVars, runVars, lockVars, readVars, retryVars, scanVars>>

\* DecisionEngine(client, use_llm_ranking).decide(analyses) is called.
call_decide ==
    /\ fn_call.fn = ""
    /\ \E analyses \in AnalysisBatches, use_llm_ranking \in BOOLEAN,
          reply \in RankingReplies :
         fn_call' = [fn |-> "decide",
                     args |-> [analyses |-> analyses,
                               use_llm_ranking |-> use_llm_ranking, reply |-> reply],
                     result |-> decide(analyses, use_llm_ranking, reply, utcnow)]
    /\ UNCHANGED <<storeVars, runVars, lockVars, readVars, retryVars, scanVars>>

----------------------------------------------------------------------------
(* Calls of the retry queue's functions on their own, under                *)
(* RUN_INGEST_RETRY_QUEUE_LOCK: the queue they find, the time, the result. *)

\* An entry of the queue as _enqueue_run_ingest_retry writes it, for the run
\* with n rows.
QueueEntry(run_id, n, is_final, queued_at, attempts, next_retry_at) ==
    [run_id |-> run_id,
     payload |-> [run_id |-> run_id, run |-> RunOf(<<"running">>, n), sid |-> 0],
     signature |-> _build_run_signature(RunOf(<<"running">>, n)),
     stats |-> _run_payload_stats(RunOf(<<"running">>, n)),
     is_final |-> is_final, queued_at |-> queued_at, attempts |-> attempts,
     next_retry_at |-> next_retry_at, last_error |-> WriteLockTimeout.message]

\* The entries a run may have in the queue: final or not, queued earlier or
\* later, due now or after a backoff.
EntriesOf(run_id) ==
    {QueueEntry(run_id, 1, is_final, queued_at, 1, next_retry_at) :
        is_final \in BOOLEAN, queued_at \in {80, 85}, next_retry_at \in {90, 94}}

\* Queues of up to three runs, in dict order.
QueuesSeen ==
    {<<>>}
    \cup {<<a>> : a \in EntriesOf("run-1")}
    \cup {<<a, b>> : a \in EntriesOf("run-1"), b \in EntriesOf("run-2")}
    \cup {<<a, b, c>> : a \in EntriesOf("run-1"), b \in EntriesOf("run-2"),
                        c \in EntriesOf("run-3")}

\* ingest_retry_worker_loop takes the lock and calls
\* _pop_ready_ingest_retry_unlocked(now).
call_pop_ready_ingest_retry ==
    /\ fn_call.fn = ""
    /\ \E q \in QueuesSeen, now \in {90, 94} :
         fn_call' = [fn |-> "_pop_ready_ingest_retry_unlocked",
                     args |-> [queue |-> q, now |-> now],
                     result |-> [popped |-> ReadyIndex(q, now),
                                 queue |-> IF ReadyIndex(q, now) = 0 THEN q
                                           ELSE _pop_ready_ingest_retry_unlocked(
                                                    q, ReadyIndex(q, now))]]
    /\ UNCHANGED <<storeVars, runVars, lockVars, readVars, retryVars, scanVars>>

\* The attempts an entry has behind it when the worker's retry fails again.
AttemptsSeen == 0..8

\* _requeue_ingest_retry(run_id, payload, error) after a failed retry of the
\* entry the worker had popped.
call_requeue_ingest_retry ==
    /\ fn_call.fn = ""
    /\ \E attempts \in AttemptsSeen, is_final \in BOOLEAN, now \in {90, 94} :
         fn_call' = [fn |-> "_requeue_ingest_retry",
                     args |-> [entry |-> QueueEntry("run-1", 1, is_final, 80,
                                                    attempts, 90),
                               now |-> now],
                     result |-> _requeue_ingest_retry(
                                    <<>>, "run-1",
                                    QueueEntry("run-1", 1, is_final, 80, attempts, 90),
                                    DatabaseIsLocked.message, now)]
    /\ UNCHANGED <<storeVars, runVars, lockVars, readVars, retryVars, scanVars>>

\* A listing as it stands in jobs_raw: a verified client; spend, proposals,
\* budget, description, skills and age on both sides of what the rules ask.
ListingsSeen ==
    {[NewJobRaw(<<"~01">>) EXCEPT
         !.keyword = <<"python">>, !.title = <<"Python", " ", "ETL">>,
         !.payment_verified = TRUE, !.client_spend = spend,
         !.proposals = proposals, !.budget_value = budget_value,
         !.description = description, !.skills = skills,
         !.scraped_at = scraped_at] :
        spend \in {NoneInt, 10000},
        proposals \in {NoneStr, <<"2">>, <<"30">>, <<"50", "+">>},
        budget_value \in {600, 2500},
        description \in {ClearScope, <<"long scope">>},
        skills \in {NoneStr, GoodSkills},
        scraped_at \in {NoneTime, 199, 79}}

\* The record the listing has before the pass: none, one written by the
\* rules with apply_now set, or one that carries an external judgment.
RecordsSeen ==
    {<<>>}
    \cup {<<[job_key |-> <<"~01">>, title |-> <<"Python", " ", "ETL">>,
             keyword |-> <<"python">>, opportunity_score |-> 8000,
             safety_score |-> 8000, fit_score |-> 8000, apply_now |-> TRUE,
             reasons |-> [llm_action |-> action, composite_score |-> 0,
                          codes |-> <<>>],
             last_updated |-> 100]>> : action \in {"", "APPLY"}}

\* refresh_metrics_and_opportunities on a Store that holds one listing, at
\* utcnow = 200 (hours).
call_refresh_metrics_and_opportunities ==
    /\ fn_call.fn = ""
    /\ \E job \in ListingsSeen, opps \in RecordsSeen :
         fn_call' = [fn |-> "refresh_metrics_and_opportunities",
                     args |-> [jobs_raw |-> <<job>>, job_opps |-> opps, now |-> 200],
                     result |-> _refresh_job_opportunities(
                                    opps, <<job>>,
                                    RefreshKeywords(<<>>, <<job>>, <<>>, 200), 200)]
    /\ UNCHANGED <<storeVars, runVars, lockVars, readVars, retryVars, scanVars>>

\* _trim_ingest_retry_queue_unlocked() as _enqueue_run_ingest_retry and
\* _requeue_ingest_retry call it, under the lock, after they have put one
\* entry: the queue is over its capacity by one entry at most.
call_trim_ingest_retry_queue ==
    /\ fn_call.fn = ""
    /\ \E q \in QueuesSeen :
         /\ Len(q) <= RUN_INGEST_RETRY_MAX_QUEUE + 1
         /\ fn_call' = [fn |-> "_trim_ingest_retry_queue_unlocked",
                        args |-> [queue |-> q],
                        result |-> _trim_ingest_retry_queue_unlocked(q)]
    /\ UNCHANGED <<storeVars, runVars, lockVars, readVars, retryVars, scanVars>>

\* The caller takes the result.
call_returns ==
    /\ fn_call.fn # ""
    /\ fn_call' = [fn |-> "", args |-> <<>>, result |-> 0]
    /\ UNCHANGED <<storeVars, runVars, lockVars, readVars, retryVars, scanVars>>

CallInit == fn_call = [fn |-> "", args |-> <<>>, result |-> 0]

StoreInit ==
    /\ fs = [p \in Paths |-> 0]
    /\ ingested_files = <<>>
    /\ jobs_raw = <<>>
    /\ talent_raw = <<>>
    /\ keyword_recs = <<>>
    /\ job_opps = <<>>
    /\ events = <<>>
    /\ utcnow = 0
    /\ scan_result = [ok |-> TRUE, scanned_files |-> 0, new_files |-> 0,
                      updated_files |-> 0]
    /\ fs_touched = FALSE

Init == StoreInit /\ RunInit /\ LockInit /\ ReadInit /\ RetryInit /\ CallInit /\ ScanInit

\* The ingestion side of the Store: files come and go, scans and run
\* payloads bring their rows in.
Next ==
    \/ WriteFile
    \/ DeleteFile
    \/ scan_and_ingest
    \/ _persist_run_ingest

Spec == Init /\ [][Next]_vars

\* The ingestion scanner next to a crawler that may rewrite a file at any
\* moment, also between two reads of a scan.
NextScan ==
    \/ WriteFile
    \/ scan_and_ingest
    \/ scan_and_ingest_file_rewritten

SpecScan == Init /\ [][NextScan]_vars

\* The crawler writes a file while no scan is under way.
WriteFileBetweenScans ==
    /\ \A s \in Scanners : scan_proc[s].pc = "idle"
    /\ WriteFile

\* Two callers of scan_and_ingest at once, file by file; the tree changes
\* between scans only.
NextScans ==
    \/ WriteFileBetweenScans
    \/ scan_starts
    \/ scan_reads_file
    \/ scan_flushes
    \/ scan_finishes

SpecScans == Init /\ [][NextScans]_vars

\* The functions of the retry queue and the refresh pass, called on their own.
NextCalls ==
    \/ call_pop_ready_ingest_retry
    \/ call_requeue_ingest_retry
    \/ call_trim_ingest_retry_queue
    \/ call_refresh_metrics_and_opportunities
    \/ call_returns

SpecCalls == Init /\ [][NextCalls]_vars

\* The opportunity side of the Store: listings arrive through run payloads,
\* refresh passes and external judgments work on them.
NextOpp ==
    \/ Tick
    \/ _persist_run_ingest
    \/ refresh_metrics_and_opportunities
    \/ run_llm_analysis_cycle

SpecOpp == Init /\ [][NextOpp]_vars

\* The run path: submissions, the retry worker, the background refresh.
NextRun ==
    \/ ingest_run
    \/ ingest_retry_worker_pop
    \/ ingest_retry_worker_persist
    \/ background_refresh_worker
    \/ Advance

SpecRun == Init /\ [][NextRun]_vars

\* The write permit and the callers of the Store.
NextLock ==
    \/ db_operation_start
    \/ db_write_lock_acquire
    \/ db_write_lock_timeout
    \/ db_operation_end
    \/ llm_persist_end

SpecLock == Init /\ [][NextLock]_vars

\* Reads through the cache while the Store changes.
NextRead ==
    \/ _persist_run_ingest
    \/ refresh_metrics_and_opportunities
    \/ get_opportunity_jobs

SpecRead == Init /\ [][NextRead]_vars

\* Calls of run_with_retry while the other callers take and release the permit.
NextRetry ==
    \/ run_with_retry
    \/ run_once_begin
    \/ run_once_end
    \/ db_operation_start
    \/ db_write_lock_acquire
    \/ db_write_lock_timeout
    \/ db_operation_end
    \/ llm_persist_end

SpecRetry == Init /\ [][NextRetry]_vars

\* The ingestion side of the Store under the scheduler.  The loop of
\* orchestrator_scheduler_loop starts a cycle whenever its sleep is over, and
\* a cycle that was started ends: scan_and_ingest returns or raises (as long
\* as the event log of the model has room for its event).
NextScheduled ==
    \/ WriteFile
    \/ _persist_run_ingest
    \/ scheduler_wakes
    \/ run_orchestrator_cycle_sync

SchedulerBetweenCycles ==
    db_pc["orchestrator_scheduler"] = "idle" \/ Len(events) >= MaxEvents

SpecScheduled ==
    /\ Init /\ [][NextScheduled]_vars
    /\ WF_vars(scheduler_wakes)
    /\ []<>SchedulerBetweenCycles

\* The scoring and judging functions called on their own.
NextScore ==
    \/ call_compute_freshness_score
    \/ call_compute_safety_score
    \/ call_apply_hard_rules
    \/ call_llm_rerank
    \/ call_decide
    \/ call_returns

SpecScore == Init /\ [][NextScore]_vars

----------------------------------------------------------------------------
(* Properties of the Store.                                                *)

\* The listing of an opportunity record has at least n proposals.
ListingHasProposals(table, key, n) ==
    \E j \in DOMAIN table :
        /\ table[j].job_key = key
        /\ parse_int_value(table[j].proposals) # NoneInt
        /\ parse_int_value(table[j].proposals) >= n

\* The step appends the event of a completed scan.
ScanCompletes ==
    /\ Len(events') = Len(events) + 1
    /\ events'[Len(events')].event_type = "ingest_scan"

\* C1: a scan that follows a completed scan with no file of the tree written
\* or removed in between reports no new and no updated file and leaves the
\* number of listings and of providers as it was.
C1_RescanChangesNothing ==
    [][(ScanCompletes /\ ~fs_touched
          /\ \E i \in DOMAIN events : events[i].event_type = "ingest_scan")
       => /\ scan_result'.ok
          /\ scan_result'.new_files = 0
          /\ scan_result'.updated_files = 0
          /\ Len(jobs_raw') = Len(jobs_raw)
          /\ Len(talent_raw') = Len(talent_raw)
          /\ ingested_files' = ingested_files]_vars

\* Two scans have completed, the second over two files whose hashes were
\* both on record, and the Store holds listings and providers.
C1_Witness ==
    /\ Len(events) = 2
    /\ \A i \in DOMAIN events : events[i].event_type = "ingest_scan"
    /\ ~fs_touched
    /\ scan_result.ok /\ scan_result.scanned_files = 2
    /\ scan_result.new_files = 0 /\ scan_result.updated_files = 0
    /\ Len(jobs_raw) > 0 /\ Len(talent_raw) > 0

\* C2: the Store never holds two listings with the same derived key.
C2_OneListingPerKey ==
    \A i, j \in DOMAIN jobs_raw :
        i # j => jobs_raw[i].job_key # jobs_raw[j].job_key

\* Both files are on record, one naming the posting in Job_URL and the
\* other in DETAIL_JOB_URL with a query string, and one listing has its key.
C2_Witness ==
    /\ \E i \in DOMAIN ingested_files :
         ingested_files[i].file_hash = _compute_file_hash(2)
    /\ \E i \in DOMAIN ingested_files :
         ingested_files[i].file_hash = _compute_file_hash(4)
    /\ Cardinality({i \in DOMAIN jobs_raw :
                      jobs_raw[i].job_key = derive_job_key(U1, <<>>, <<>>)}) = 1
    /\ derive_job_key(U1q, <<>>, <<>>) = derive_job_key(U1, <<>>, <<>>)

\* C3: a refresh pass leaves a record that carries an llm_action as it is,
\* except that apply_now may go from true to false and last_updated may move.
C3_RefreshKeepsJudgment ==
    [][refresh_metrics_and_opportunities
       => \A i \in DOMAIN job_opps :
            HasLlmAction(job_opps[i])
            => /\ i \in DOMAIN job_opps'
               /\ job_opps'[i] = [job_opps[i] EXCEPT
                                     !.apply_now = job_opps'[i].apply_now,
                                     !.last_updated = job_opps'[i].last_updated]
               /\ job_opps'[i].apply_now => job_opps[i].apply_now]_vars

\* The first record was created by a failed judgment (WATCH, all scores 0)
\* before the second, which a later refresh pass created from the rules.
C3_Witness ==
    /\ Len(job_opps) >= 2
    /\ job_opps[1].reasons.llm_action = "WATCH"
    /\ job_opps[1].opportunity_score = 0 /\ job_opps[1].safety_score = 0
    /\ ~job_opps[1].apply_now
    /\ ~HasLlmAction(job_opps[2])

\* C4: after a refresh pass no record whose listing has 50 or more proposals
\* has apply_now set, whatever set it before.
C4_DeadNeverApplyNow ==
    [][refresh_metrics_and_opportunities
       => \A i \in DOMAIN job_opps' :
            ListingHasProposals(jobs_raw', job_opps'[i].job_key,
                                PROPOSALS_DEAD_THRESHOLD)
            => ~job_opps'[i].apply_now]_vars

\* A record judged APPLY, which was persisted with apply_now set, belongs to
\* a listing that has since reached 50 proposals and has apply_now cleared.
C4_Witness ==
    \E i \in DOMAIN job_opps :
        /\ job_opps[i].reasons.llm_action = "APPLY"
        /\ ~job_opps[i].apply_now
        /\ ListingHasProposals(jobs_raw, job_opps[i].job_key, PROPOSALS_DEAD_THRESHOLD)

\* A step in which the retry worker persisted the entry it had popped.
RetryPersisted ==
    /\ retry_worker.pc = "persist"
    /\ retry_worker'.pc = "wait"
    /\ retry_worker'.last.result = "persisted"

\* The ingest_run_payload events that persisted submission sid
PersistedTimes(log, sid) ==
    Cardinality({i \in DOMAIN log :
                    log[i].event_type = "ingest_run_payload" /\ log[i].sid = sid})

QueueHoldsSubmission(q, sid) == \E i \in DOMAIN q : q[i].payload.sid = sid

\* C6 as stated: when the retry worker persists a queued payload, after any
\* number of failed attempts, the payload has been persisted exactly once, the
\* retry queue holds no entry of it, and the tracker holds no record of its run.
C6_RetrySuccessLeavesTracker ==
    [][RetryPersisted
       => /\ PersistedTimes(events', retry_worker.entry[1].payload.sid) = 1
          /\ ~QueueHoldsSubmission(RUN_INGEST_RETRY_QUEUE', retry_worker.entry[1].payload.sid)
          /\ TrackerCopy(RUN_INGEST_TRACKER', retry_worker.entry[1].run_id) = <<>>]_vars

\* C6, amended: when the retry worker persists a queued payload, after any
\* number of failed attempts, the payload has been persisted exactly once and
\* the retry queue holds no entry of it; the run's record leaves the tracker
\* if the queue entry is flagged final, and otherwise the tracker records the
\* payload's signature, total and processing time, unless it is already full
\* of records stamped with the same time, which pruning prefers.
C6_RetrySuccessConverges ==
    [][RetryPersisted
       => /\ PersistedTimes(events', retry_worker.entry[1].payload.sid) = 1
          /\ ~QueueHoldsSubmission(RUN_INGEST_RETRY_QUEUE', retry_worker.entry[1].payload.sid)
          /\ IF retry_worker.entry[1].is_final
             THEN TrackerCopy(RUN_INGEST_TRACKER', retry_worker.entry[1].run_id) = <<>>
             ELSE \/ /\ TrackerCopy(RUN_INGEST_TRACKER', retry_worker.entry[1].run_id) # <<>>
                     /\ TrackerCopy(RUN_INGEST_TRACKER', retry_worker.entry[1].run_id)[1].signature
                            = retry_worker.entry[1].signature
                     /\ TrackerCopy(RUN_INGEST_TRACKER', retry_worker.entry[1].run_id)[1].last_total
                            = retry_worker.entry[1].stats.total
                     /\ TrackerCopy(RUN_INGEST_TRACKER', retry_worker.entry[1].run_id)[1].last_processed_at
                            = retry_worker.now
                  \/ /\ Len(RUN_INGEST_TRACKER) = RUN_INGEST_TRACKER_MAX
                     /\ TrackerCopy(RUN_INGEST_TRACKER, retry_worker.entry[1].run_id) = <<>>
                     /\ \A i \in DOMAIN RUN_INGEST_TRACKER :
                            RUN_INGEST_TRACKER[i].updated_at = clock
                     /\ RUN_INGEST_TRACKER' = RUN_INGEST_TRACKER]_vars

\* A payload that is not final was persisted by the retry worker after at
\* least one failed attempt, and its run is recorded in the tracker.
C6_Witness ==
    /\ retry_worker.pc = "wait"
    /\ retry_worker.last.result = "persisted"
    /\ retry_worker.last.attempts >= 1
    /\ ~retry_worker.last.is_final
    /\ PersistedTimes(events, retry_worker.last.sid) = 1
    /\ ~QueueHoldsSubmission(RUN_INGEST_RETRY_QUEUE, retry_worker.last.sid)
    /\ TrackerCopy(RUN_INGEST_TRACKER, retry_worker.last.run_id) # <<>>

\* A call of ingest_run whose direct persistence failed.
IngestRunQueued == next_sid' = next_sid + 1 /\ last_return'.kind = "queued"

QueueHoldsRun(q, run_id) == \E i \in DOMAIN q : q[i].run_id = run_id

\* C7 as stated: when direct persistence fails inside ingest_run, the call
\* returns a response and the retry queue then holds an entry for the run_id.
C7_FailureAlwaysQueued ==
    [][IngestRunQueued
       => /\ last_return'.response.run_id = last_return'.run_id
          /\ QueueHoldsRun(RUN_INGEST_RETRY_QUEUE', last_return'.run_id)]_vars

\* C7, amended: when direct persistence fails inside ingest_run, the call
\* returns a response, and the retry queue then holds an entry for the run_id
\* unless the payload is not final, its run had no entry, and the queue was at
\* its capacity with final entries only: trimming then evicts the new entry.
C7_FailureQueuedUnlessTrimmed ==
    [][IngestRunQueued
       => /\ last_return'.response.run_id = last_return'.run_id
          /\ \/ QueueHoldsRun(RUN_INGEST_RETRY_QUEUE', last_return'.run_id)
             \/ /\ Lower(strip(last_return'.status)) \notin FINAL_RUN_STATUSES
                /\ ~QueueHoldsRun(RUN_INGEST_RETRY_QUEUE, last_return'.run_id)
                /\ Len(RUN_INGEST_RETRY_QUEUE) = RUN_INGEST_RETRY_MAX_QUEUE
                /\ \A i \in DOMAIN RUN_INGEST_RETRY_QUEUE : RUN_INGEST_RETRY_QUEUE[i].is_final
                /\ RUN_INGEST_RETRY_QUEUE' = RUN_INGEST_RETRY_QUEUE]_vars

\* The last call of ingest_run failed to persist and its payload is queued.
C7_Witness ==
    /\ last_return.kind = "queued"
    /\ QueueHoldsSubmission(RUN_INGEST_RETRY_QUEUE, last_return.sid)
    /\ PersistedTimes(events, last_return.sid) = 0

\* A call of ingest_run for the run of the call before it, neither of them
\* final, inside the debounce window of that call and with more rows.
IngestRunAgainGrown ==
    /\ next_sid' = next_sid + 1
    /\ last_return.kind # "none"
    /\ last_return'.run_id = last_return.run_id
    /\ Lower(strip(last_return.status)) \notin FINAL_RUN_STATUSES
    /\ Lower(strip(last_return'.status)) \notin FINAL_RUN_STATUSES
    /\ last_return'.at - last_return.at < RUN_INGEST_MIN_PROCESS_SECONDS
    /\ last_return'.total > last_return.total

\* The call was answered with the response of the call before it and wrote
\* neither to the Store nor to the retry queue.
AnsweredFromPrevious ==
    /\ last_return'.response = last_return.response
    /\ UNCHANGED <<jobs_raw, talent_raw, keyword_recs, job_opps, events>>
    /\ UNCHANGED RUN_INGEST_RETRY_QUEUE

\* C8 as stated: a second submission of a runId, not final, with more rows
\* than the first and inside the debounce window, is answered with the cached
\* response of the first and performs no Store write and no enqueue.
C8_GrownResubmissionCached == [][IngestRunAgainGrown => AnsweredFromPrevious]_vars

\* C8, amended: a second submission of a runId, not final, with more rows
\* than the first and inside the debounce window, is answered with the cached
\* response of the first and performs no Store write and no enqueue, provided
\* the tracker still holds the first call's response for the run and the
\* second submission has fewer than RUN_INGEST_MIN_NEW_ITEMS rows more than
\* the total the tracker recorded.
C8_SmallGrowthCached ==
    [][(/\ IngestRunAgainGrown
        /\ TrackerCopy(RUN_INGEST_TRACKER, last_return.run_id) # <<>>
        /\ TrackerCopy(RUN_INGEST_TRACKER, last_return.run_id)[1].last_response
               = last_return.response
        /\ TrackerCopy(RUN_INGEST_TRACKER, last_return.run_id)[1].last_processed_at
               = last_return.at
        /\ last_return'.total - TrackerCopy(RUN_INGEST_TRACKER, last_return.run_id)[1].last_total
               < RUN_INGEST_MIN_NEW_ITEMS)
       => /\ last_return'.kind = "debounced"
          /\ AnsweredFromPrevious]_vars

\* The second call for a run was answered from the cache although it had one
\* row more than the first, which is the only submission persisted.
C8_Witness ==
    /\ last_return.kind = "debounced"
    /\ last_return.sid = 2
    /\ Len(events) = 1
    /\ events[1].sid = 1
    /\ TrackerCopy(RUN_INGEST_TRACKER, last_return.run_id) # <<>>
    /\ last_return.total > TrackerCopy(RUN_INGEST_TRACKER, last_return.run_id)[1].last_total
    /\ last_return.response
           = TrackerCopy(RUN_INGEST_TRACKER, last_return.run_id)[1].last_response
    /\ RUN_INGEST_RETRY_QUEUE = <<>>

\* C9: a submission with a final status is never answered from the debounce
\* cache: when ingest_run returns, the submission has been persisted or the
\* retry queue holds it in an entry flagged final.
C9_FinalNeverDebounced ==
    [][(/\ next_sid' = next_sid + 1
        /\ Lower(strip(last_return'.status)) \in FINAL_RUN_STATUSES)
       => /\ last_return'.kind # "debounced"
          /\ \/ /\ last_return'.kind = "persisted"
                /\ PersistedTimes(events', last_return'.sid) = 1
             \/ /\ last_return'.kind = "queued"
                /\ \E i \in DOMAIN RUN_INGEST_RETRY_QUEUE' :
                      /\ RUN_INGEST_RETRY_QUEUE'[i].payload.sid = last_return'.sid
                      /\ RUN_INGEST_RETRY_QUEUE'[i].is_final]_vars

\* A final submission was persisted at the very instant at which the tracker
\* had recorded its run, and the run has left the tracker.
C9_Witness ==
    /\ last_return.kind = "persisted"
    /\ Lower(strip(last_return.status)) \in FINAL_RUN_STATUSES
    /\ last_return.sid = 2
    /\ last_return.at = StartTime
    /\ Len(events) = 2
    /\ events[1].run_id = last_return.run_id
    /\ events[2].sid = 2
    /\ TrackerCopy(RUN_INGEST_TRACKER, last_return.run_id) = <<>>

\* A caller is inside a Store write: its operation runs on an open session.
InStoreWrite(c) == db_pc[c] \in {"operation", "llm_persist"}

\* C5: every caller that is inside a Store write holds the write permit
\* DB_WRITE_LOCK, so that no two callers are inside a Store write at once.
C5_SingleWriter ==
    /\ \A c \in DbCallers : InStoreWrite(c) => (lock_acquired[c] /\ DB_WRITE_LOCK)
    /\ \A c, d \in DbCallers : (InStoreWrite(c) /\ InStoreWrite(d)) => c = d

\* A step in which a read through the cache returned.
ReadReturned == <<READ_CACHE, last_read, last_success>>' # <<READ_CACHE, last_read, last_success>>

\* C10: a read through run_db_read_with_fallback returns in every case: the
\* live result when the query succeeds, which is then cached under the cache
\* key; otherwise the result of the last query that succeeded under that very
\* key; and the default when there is none.
C10_ReadFallsBack ==
    [][ReadReturned
       => /\ last_read'.kind \in {"live", "cached", "default"}
          /\ last_read'.succeeded
               => /\ last_read'.kind = "live"
                  /\ last_read'.value
                       = get_job_opportunities(job_opps, last_read'.cache_key[2],
                                               last_read'.cache_key[3] = 1)
                  /\ READ_CACHE'[last_read'.cache_key] = <<last_read'.value>>
          /\ ~last_read'.succeeded
               => IF last_success[last_read'.cache_key] # <<>>
                  THEN /\ last_read'.kind = "cached"
                       /\ last_read'.value = last_success[last_read'.cache_key][1]
                  ELSE /\ last_read'.kind = "default"
                       /\ last_read'.value = <<>>]_vars

\* A read whose query failed was answered from the cache with a result that
\* the Store no longer gives, while another key has nothing cached.
C10_Witness ==
    /\ last_read.kind = "cached"
    /\ last_read.value # <<>>
    /\ last_read.value # get_job_opportunities(job_opps, last_read.cache_key[2],
                                               last_read.cache_key[3] = 1)
    /\ \E k \in CacheKeys : READ_CACHE[k] = <<>>

\* A step in which a write to the Store succeeded: its tables changed.
StoreWritten ==
    <<jobs_raw, talent_raw, keyword_recs, job_opps, events>>'
        # <<jobs_raw, talent_raw, keyword_recs, job_opps, events>>

\* C11: a successful write to the Store invalidates every entry of the read
\* cache, so that a read whose query failed is never answered with a value
\* cached before the last write: what it serves from the cache is what the
\* Store gives now.
C11_CacheInvalidatedOnWrite ==
    [][/\ StoreWritten => \A k \in CacheKeys : READ_CACHE'[k] = <<>>
       /\ (ReadReturned /\ last_read'.kind = "cached")
            => last_read'.value
                 = get_job_opportunities(job_opps, last_read'.cache_key[2],
                                         last_read'.cache_key[3] = 1)]_vars

\* A call of ingest_run persisted a final submission, which asks for a
\* refresh whatever the tracker says.
FinalPersisted ==
    /\ next_sid' = next_sid + 1
    /\ last_return'.kind = "persisted"
    /\ Lower(strip(last_return'.status)) \in FINAL_RUN_STATUSES

\* C12: the refresh on demand is single-flighted: there is never a second
\* worker; a worker is started only while the flag is clear and no worker is
\* alive; a worker that ends, whether its refresh succeeded or raised, leaves
\* the flag clear; and a trigger that comes when no worker is alive starts one.
C12_RefreshSingleFlight ==
    [][/\ refresh_threads' <= 1
       /\ refresh_threads' > refresh_threads
            => (~BACKGROUND_REFRESH_IN_FLIGHT /\ refresh_threads = 0)
       /\ refresh_threads' < refresh_threads => ~BACKGROUND_REFRESH_IN_FLIGHT'
       /\ (FinalPersisted /\ refresh_threads = 0)
            => (refresh_threads' = 1 /\ BACKGROUND_REFRESH_IN_FLIGHT')]_vars

\* A worker has run and refreshed the opportunities, and the trigger of the
\* second submission, persisted after that, has started a new worker.
C12_Witness ==
    /\ refresh_threads = 1
    /\ BACKGROUND_REFRESH_IN_FLIGHT
    /\ job_opps # <<>>
    /\ last_return.sid = 2
    /\ last_return.kind = "persisted"
    /\ Len(events) = 2

\* A background cycle is executing against the Store: the scheduler's cycle
\* (run_orchestrator_cycle_sync) or the refresh of a background worker.
BackgroundCycleRunning(c) ==
    /\ c \in {"orchestrator_scheduler", "background_refresh"}
    /\ db_pc[c] = "operation"

\* C13: at any time at most one background cycle, the scheduler's ingest and
\* score cycle or a score-only refresh, is executing against the Store.
C13_OneBackgroundCycle ==
    \A c, d \in DbCallers :
        (BackgroundCycleRunning(c) /\ BackgroundCycleRunning(d)) => c = d

\* The errors of transient contention: a locked database, an exhausted
\* connection pool, a wait for the write permit that timed out.
TransientContention(exc) == exc \in {DatabaseIsLocked, QueuePoolTimeout, WriteLockTimeout}

\* C14: run_with_retry calls the operation at most max_attempts times; it
\* returns the result of the first call that succeeds; it calls again only
\* after an error of transient contention; an error that is not one is raised
\* at once; after max_attempts transient failures the last error is raised;
\* and with write every call that reaches the operation has taken the permit
\* anew, the permit being free between two calls.
C14_RetryBounded ==
    [][/\ retry_call'.calls <= retry_call'.max_attempts
       /\ retry_call'.pc = "returned" => retry_call'.result = retry_call'.calls
       /\ (retry_call.calls > 0 /\ retry_call'.calls > retry_call.calls)
            => /\ retry_call.last_error # <<>>
               /\ TransientContention(retry_call.last_error[1])
       /\ (retry_call'.last_error # <<>>
           /\ ~TransientContention(retry_call'.last_error[1]))
            => retry_call'.pc = "raised"
       /\ retry_call'.pc = "raised"
            => /\ retry_call'.raised = retry_call'.last_error
               /\ \/ ~TransientContention(retry_call'.raised[1])
                  \/ retry_call'.calls = retry_call'.max_attempts
       /\ (retry_call'.pc = "run_once" /\ retry_call'.calls > 0)
            => retry_call'.calls < retry_call'.max_attempts
       /\ (retry_call'.write /\ retry_call'.pc = "operation")
            => (retry_call'.lock_acquired /\ DB_WRITE_LOCK')
       /\ (retry_call'.write /\ retry_call.pc = "run_once"
           /\ retry_call'.pc = "operation")
            => (~DB_WRITE_LOCK /\ retry_call'.acquired = retry_call.acquired + 1)
       /\ retry_call'.pc # "operation" => ~retry_call'.lock_acquired]_vars

\* A writing call that was allowed four attempts returned from its third:
\* the first two failed, the second one waiting for the permit in vain.
C14_Witness ==
    /\ retry_call.pc = "returned"
    /\ retry_call.write
    /\ retry_call.max_attempts = DB_RETRY_ATTEMPTS
    /\ retry_call.calls = 3
    /\ retry_call.acquired = 2
    /\ retry_call.last_error = <<WriteLockTimeout>>
    /\ retry_call.result = 3

\* C15: the response of ingest_run tells its outcome: of two calls in a row
\* of which one persisted its submission and the other queued it for a later
\* retry, the responses differ.
C15_OutcomeToldByResponse ==
    [][(/\ next_sid' = next_sid + 1
        /\ last_return.sid > 0
        /\ {last_return.kind, last_return'.kind} = {"persisted", "queued"})
       => last_return'.response # last_return.response]_vars

\* str(exc) of a failure that is not one of transient contention.
PermanentFailure(error) ==
    /\ error # <<>>
    /\ \A exc \in {DatabaseIsLocked, QueuePoolTimeout, WriteLockTimeout} :
           error # exc.message

\* C16: a submission whose persistence fails for a permanent reason is
\* rejected with an error for the client and is not placed on the retry
\* queue, and the retry worker never takes up an entry whose last failure was
\* permanent: only transient contention leads to a retry.
C16_PermanentFailureRejected ==
    [][/\ (next_sid' = next_sid + 1 /\ PermanentFailure(last_return'.error))
            => /\ last_return'.kind = "rejected"
               /\ ~QueueHoldsSubmission(RUN_INGEST_RETRY_QUEUE', last_return'.sid)
       /\ (retry_worker.pc = "wait" /\ retry_worker'.pc = "persist")
            => ~PermanentFailure(retry_worker'.entry[1].last_error)]_vars

\* A call of scan_and_ingest ended: it returned its counts or it raised.
ScanEnds == scan_result' # scan_result \/ ScanCompletes

\* The file at path is in the tree and ingesting it fails.
FileFails(tree, path) ==
    /\ tree[path] # 0
    /\ _parse_file(path, FileContent(tree[path])).raises

\* C17: a failure while one file is ingested does not abort the scan: the
\* scan returns its counts, and every other file of the tree is recorded in
\* ingested_files with the content it has.
C17_FileFailureDoesNotAbortScan ==
    [][(ScanEnds /\ \E p \in Paths : FileFails(fs, p))
       => /\ scan_result'.ok
          /\ \A q \in Paths :
                 (fs[q] # 0 /\ ~FileFails(fs, q))
                     => HashUnchanged(ingested_files', q, _compute_file_hash(fs[q]))]_vars

\* C18: a row from which no usable title can be made is dropped and creates
\* no record, while the other rows of its file are ingested: a scan that finds
\* the Store empty and, alone in the tree, the listings file of three rows of
\* which one has a blank title and no URL (content 6) leaves exactly 2
\* listings, none of them under the placeholder title.
C18_UntitledRowDropped ==
    [][(/\ ScanCompletes
        /\ jobs_raw = <<>>
        /\ fs["python_jobs.csv"] = 6
        /\ fs["export_scrape.json"] = 0)
       => /\ Len(jobs_raw') = 2
          /\ \A i \in DOMAIN jobs_raw' : jobs_raw'[i].title # <<"Untitled job">>]_vars

\* The listing of an opportunity record reads "50+" for its proposals.
ListingReadsFiftyPlus(table, key) ==
    \E j \in DOMAIN table :
        table[j].job_key = key /\ table[j].proposals = <<"50", "+">>

\* The Freshness Score of the listing with the key, as a refresh pass at now
\* computes it.
FreshnessOf(table, key, now) ==
    LET j == CHOOSE j \in DOMAIN table : table[j].job_key = key
    IN compute_freshness_score(OrElse(table[j].proposals, <<"0">>), table[j].scraped_at, now)

\* C19 as stated: after a refresh pass a listing whose proposals read "50+"
\* has a Freshness Score strictly below 40 and apply_now = false.
C19_FiftyPlusBelowForty ==
    [][refresh_metrics_and_opportunities
       => \A i \in DOMAIN job_opps' :
            ListingReadsFiftyPlus(jobs_raw', job_opps'[i].job_key)
            => /\ FreshnessOf(jobs_raw', job_opps'[i].job_key, utcnow) < 4000
               /\ ~job_opps'[i].apply_now]_vars

\* C19: after a refresh pass a listing whose proposals read "50+" has a
\* Freshness Score of at most 40, which is exactly 40 unless the listing was
\* scraped more than 48 hours ago, and apply_now = false whatever its fit,
\* safety and opportunity scores are.
C19_FiftyPlusAtMostForty ==
    [][refresh_metrics_and_opportunities
       => \A i \in DOMAIN job_opps' :
            ListingReadsFiftyPlus(jobs_raw', job_opps'[i].job_key)
            => /\ FreshnessOf(jobs_raw', job_opps'[i].job_key, utcnow) <= 4000
               /\ (FreshnessOf(jobs_raw', job_opps'[i].job_key, utcnow) < 4000)
                    <=> (\E j \in DOMAIN jobs_raw' :
                            /\ jobs_raw'[j].job_key = job_opps'[i].job_key
                            /\ jobs_raw'[j].scraped_at # NoneTime
                            /\ utcnow - jobs_raw'[j].scraped_at > 48)
               /\ ~job_opps'[i].apply_now]_vars

\* A record of a "50+" listing scraped a moment ago, classified by the rules:
\* its Freshness Score is exactly 40, its fit and opportunity scores are above
\* the thresholds of apply_now, and apply_now is not set.
C19_Witness ==
    \E i \in DOMAIN job_opps :
        /\ ListingReadsFiftyPlus(jobs_raw, job_opps[i].job_key)
        /\ FreshnessOf(jobs_raw, job_opps[i].job_key, utcnow) = 4000
        /\ job_opps[i].fit_score >= 6000
        /\ job_opps[i].opportunity_score >= 5500
        /\ ~job_opps[i].apply_now
        /\ ~HasLlmAction(job_opps[i])

\* A score, in hundredths, lies in [0, 100].
ScoreInRange(score) == 0 <= score /\ score <= 10000

\* C20: in every state of the Store every stored Fit, Safety and Opportunity
\* score, computed by the rules or written from an external judgment, every
\* Keyword Opportunity score, and the Freshness Score of every listing lie in
\* [0, 100].
C20_ScoresInRange ==
    /\ \A i \in DOMAIN job_opps :
          /\ ScoreInRange(job_opps[i].fit_score)
          /\ ScoreInRange(job_opps[i].safety_score)
          /\ ScoreInRange(job_opps[i].opportunity_score)
    /\ \A k \in DOMAIN keyword_recs : ScoreInRange(keyword_recs[k].opportunity_score)
    /\ \A j \in DOMAIN jobs_raw :
          ScoreInRange(compute_freshness_score(OrElse(jobs_raw[j].proposals, <<"0">>),
                                               jobs_raw[j].scraped_at, utcnow))

\* The Store holds a record written from an external judgment with the Fit
\* score at its upper end, a record scored by the rules with the Safety score
\* at its lower end, and keyword scores.
C20_Witness ==
    /\ \E i \in DOMAIN job_opps :
          HasLlmAction(job_opps[i]) /\ job_opps[i].fit_score = 10000
    /\ \E i \in DOMAIN job_opps :
          ~HasLlmAction(job_opps[i]) /\ job_opps[i].safety_score = 0
    /\ \E k \in DOMAIN keyword_recs : keyword_recs[k].opportunity_score > 0

\* The proposal count a proposals text stands for.
ProposalCount(proposals_str) == parse_int_value(proposals_str)

\* C21: with the scrape time and the clock held fixed, the freshness score
\* does not rise with the proposal count: whatever count a call of
\* compute_freshness_score was given, the same call with a count at least as
\* high returns a score that is not higher.
C21_FreshnessNonIncreasing ==
    fn_call.fn = "compute_freshness_score"
        => \A p2 \in ProposalTexts :
             (/\ ProposalCount(fn_call.args.proposals_str) # NoneInt
              /\ ProposalCount(p2) # NoneInt
              /\ ProposalCount(fn_call.args.proposals_str) <= ProposalCount(p2))
                => compute_freshness_score(p2, fn_call.args.scraped_at,
                                           fn_call.args.now) <= fn_call.result

\* A call with 30 proposals on a listing scraped 73 hours ago returned 50,
\* and the same call with 50 proposals returns strictly less.
C21_Witness ==
    /\ fn_call.fn = "compute_freshness_score"
    /\ ProposalCount(fn_call.args.proposals_str) = 30
    /\ fn_call.args.scraped_at # NoneTime
    /\ fn_call.args.now - fn_call.args.scraped_at = 73
    /\ fn_call.result = 5000
    /\ compute_freshness_score(<<"50", "+">>, fn_call.args.scraped_at, fn_call.args.now)
         < fn_call.result

\* A description holds a scam-indicator phrase.
HasScamPhrase(description) == TermsOf(description, SUSPICIOUS_TERMS) # {}

\* A verified client with spend on record, a listing with at most 10
\* proposals and a description of 50 characters or more without a scam phrase.
SafeProfile(payment_verified, client_spend, proposals, description) ==
    /\ payment_verified
    /\ client_spend # NoneInt /\ client_spend > 0
    /\ proposals # NoneInt /\ proposals <= 10
    /\ ~HasScamPhrase(description)
    /\ TextLen(strip(description)) >= 50

\* An unverified client without spend, a budget below 10 and a description
\* with a scam phrase.
RiskyProfile(payment_verified, client_spend, budget_value, description) ==
    /\ ~payment_verified
    /\ client_spend \in {NoneInt, 0}
    /\ budget_value # NoneInt /\ budget_value < 10
    /\ HasScamPhrase(description)

\* C22: the safety score ranks a suspicious job below a safe one.  Whatever
\* the other arguments of a call of compute_safety_score, a description with
\* a scam phrase does not score higher than a description of the same length
\* without one, an unverified client does not score higher than a verified
\* one, and a risky profile scores strictly lower than every safe profile.
C22_SuspiciousRanksBelowSafe ==
    fn_call.fn = "compute_safety_score"
        => LET a == fn_call.args
           IN /\ HasScamPhrase(a.description)
                   => \A clean \in Descriptions :
                        (/\ ~HasScamPhrase(clean)
                         /\ TextLen(strip(clean)) = TextLen(strip(a.description)))
                          => fn_call.result
                               <= compute_safety_score(a.payment_verified, a.client_spend,
                                                       a.proposals, a.budget_value, clean)
              /\ ~a.payment_verified
                   => fn_call.result
                        <= compute_safety_score(TRUE, a.client_spend, a.proposals,
                                                a.budget_value, a.description)
              /\ RiskyProfile(a.payment_verified, a.client_spend, a.budget_value,
                              a.description)
                   => \A client_spend \in SpendValues, proposals \in ProposalValues,
                         budget_value \in BudgetValues, description \in Descriptions :
                        SafeProfile(TRUE, client_spend, proposals, description)
                          => fn_call.result
                               < compute_safety_score(TRUE, client_spend, proposals,
                                                      budget_value, description)

\* The risky job of the test: unverified, no spend, 80 proposals, a budget of
\* 5 and the description with three scam phrases; it scored 0, and the safe
\* job of the test scores 75.
C22_Witness ==
    /\ fn_call.fn = "compute_safety_score"
    /\ fn_call.args = [payment_verified |-> FALSE, client_spend |-> 0, proposals |-> 80,
                       budget_value |-> 5,
                       description |-> <<"Contact on telegram for upfront fee and crypto wallet transfer.">>]
    /\ fn_call.result = 0
    /\ compute_safety_score(TRUE, 2500, 8, 600,
           <<"Detailed project scope with milestones and clear deliverables.">>) = 7500
    /\ \E clean \in Descriptions :
         /\ ~HasScamPhrase(clean)
         /\ TextLen(strip(clean)) = TextLen(strip(fn_call.args.description))

\* The listings a cycle of run_llm_analysis_cycle analyzes in this state.
JobsToAnalyze ==
    LET unanalyzed == Unanalyzed(jobs_raw, Len(jobs_raw))
    IN SubSeq(unanalyzed, 1, Min(Len(unanalyzed), LLM_AUTO_BATCH_SIZE))

\* The records a cycle leaves when the collaborator answers its calls with
\* these answers.
PersistedWith(answers) ==
    PersistAll(job_opps, jobs_raw,
               SortByComposite([i \in 1..Len(JobsToAnalyze) |->
                                   analyze(JobDict(JobsToAnalyze[i]), answers[i])]),
               utcnow)

\* This step is a cycle in which the call for the listing of this key failed.
CallFailedFor(job_key) ==
    /\ jobs_raw' = jobs_raw /\ utcnow' = utcnow
    /\ \E answers \in [1..Len(JobsToAnalyze) -> LLMResponses] :
         /\ \E i \in 1..Len(JobsToAnalyze) :
              JobsToAnalyze[i].job_key = job_key /\ answers[i].failed
         /\ job_opps' = PersistedWith(answers)

\* C23: a failed external-judgment call leaves the record of its listing as
\* the rule-based refresh wrote it: in a cycle in which the call for a
\* listing failed, a record without an external judgment keeps its scores,
\* its apply_now and its reasons, and none is created for the listing.
C23_FailedCallKeepsRuleRecord ==
    [][\A i \in 1..Len(JobsToAnalyze) :
         CallFailedFor(JobsToAnalyze[i].job_key)
           => LET key == JobsToAnalyze[i].job_key
                  at == FirstIndexOf(job_opps, "job_key", key, 1)
                  after == FirstIndexOf(job_opps', "job_key", key, 1)
              IN IF at = 0 THEN after = 0
                 ELSE ~HasLlmAction(job_opps[at])
                        => /\ after = at
                           /\ job_opps'[at].fit_score = job_opps[at].fit_score
                           /\ job_opps'[at].safety_score = job_opps[at].safety_score
                           /\ job_opps'[at].opportunity_score
                                = job_opps[at].opportunity_score
                           /\ job_opps'[at].apply_now = job_opps[at].apply_now
                           /\ ~HasLlmAction(job_opps'[at])]_vars

\* How permissive an action is: SKIP < WATCH < APPLY.
Permissiveness(action) ==
    CASE action = "SKIP" -> 0 [] action = "WATCH" -> 1 [] action = "APPLY" -> 2

\* C24: the hard rules only tighten a judgment.  After _apply_hard_rules a
\* listing whose proposal count is 50 or more has the action SKIP, a listing
\* of an unverified client without spend and with a budget below 50 does not
\* have the action APPLY, and the action is never more permissive than the
\* one the judgment came with.
C24_HardRulesOnlyTighten ==
    fn_call.fn = "_apply_hard_rules"
        => LET job == fn_call.args.job
               before == fn_call.args.analysis.recommended_action
               after == fn_call.result.recommended_action
           IN /\ parse_int_value(job.proposals) >= 50 => after = "SKIP"
              /\ (/\ ~job.payment_verified
                  /\ job.client_spend \in {NoneInt, 0}
                  /\ job.budget_value # NoneInt /\ job.budget_value < 50)
                   => after # "APPLY"
              /\ Permissiveness(after) <= Permissiveness(before)

\* The rules acted on a judgment of APPLY: once for a listing with "50+"
\* proposals of a verified client, which came out SKIP.
C24_Witness ==
    /\ fn_call.fn = "_apply_hard_rules"
    /\ fn_call.args.analysis.recommended_action = "APPLY"
    /\ fn_call.args.job.proposals = <<"50", "+">>
    /\ fn_call.args.job.payment_verified
    /\ fn_call.result.recommended_action = "SKIP"

\* The rules took a judgment of APPLY for an unverified client without spend
\* and a budget of 25 down to WATCH.
C24_WitnessUnverified ==
    /\ fn_call.fn = "_apply_hard_rules"
    /\ fn_call.args.analysis.recommended_action = "APPLY"
    /\ ~fn_call.args.job.payment_verified
    /\ fn_call.args.job.client_spend = 0
    /\ fn_call.args.job.budget_value = 25
    /\ parse_int_value(fn_call.args.job.proposals) < 30
    /\ fn_call.result.recommended_action = "WATCH"

\* The decision of a key in a list of decisions (0: none), and how many
\* decisions the list holds for it.
DecisionAt(decisions, job_key) ==
    IF \E i \in 1..Len(decisions) : decisions[i].job_key = job_key
    THEN CHOOSE i \in 1..Len(decisions) : decisions[i].job_key = job_key ELSE 0

\* Two decisions differ in nothing but the label, the time sensitivity and
\* the reason.
SameButRanking(d, e) ==
    /\ d.job_key = e.job_key /\ d.title = e.title
    /\ d.composite_score = e.composite_score
    /\ d.recommended_action = e.recommended_action
    /\ d.priority_rank = e.priority_rank
    /\ d.analysis = e.analysis

\* C25: re-ranking changes nothing but the priority label, the time
\* sensitivity and the reason of decisions that are not SKIP.  After a call of
\* _llm_rerank that returned, the decisions are those it was given, each
\* with its composite score and action; a SKIP decision was not in the prompt
\* and is returned as it was.  A call of decide whose ranking call failed
\* with LLMError returns what decide returns without ranking.
C25_RerankMergesLabelsOnly ==
    /\ (fn_call.fn = "_llm_rerank" /\ ~fn_call.result.raised)
         => LET before == fn_call.args.decisions
                after == fn_call.result.decisions
            IN /\ Len(after) = Len(before)
               /\ \A i \in 1..Len(before) :
                    LET at == DecisionAt(after, before[i].job_key)
                    IN /\ at # 0
                       /\ SameButRanking(before[i], after[at])
                       /\ before[i].recommended_action = "SKIP"
                            => /\ after[at] = before[i]
                               /\ \A k \in 1..Len(fn_call.result.sent) :
                                    fn_call.result.sent[k] # before[i].job_key
    /\ (fn_call.fn = "decide" /\ fn_call.args.use_llm_ranking
        /\ fn_call.args.reply.failed)
         => fn_call.result = decide(fn_call.args.analyses, FALSE, LLMErrorReply, utcnow)

\* A re-ranking of an APPLY, a WATCH and a SKIP decision in which the
\* rankings named all three keys HOT: the first two came back HOT with the
\* reason of the ranking, the SKIP decision as it was.
C25_Witness ==
    /\ fn_call.fn = "_llm_rerank"
    /\ ~fn_call.result.raised
    /\ Len(fn_call.args.reply.rankings) = 3
    /\ \A i \in 1..3 : fn_call.args.reply.rankings[i].priority_label = "HOT"
    /\ fn_call.args.decisions[1].recommended_action = "APPLY"
    /\ fn_call.args.decisions[1].priority_label = "COLD"
    /\ fn_call.args.decisions[2].recommended_action = "SKIP"
    /\ fn_call.args.decisions[3].recommended_action = "WATCH"
    /\ fn_call.result.decisions[1].priority_label = "HOT"
    /\ fn_call.result.decisions[1].reason = <<"Strategic fit">>
    /\ fn_call.result.decisions[2].priority_label = "HOT"
    /\ fn_call.result.decisions[3] = fn_call.args.decisions[2]
    /\ fn_call.result.decisions[3].priority_label = "COLD"

\* A call of decide with ranking asked for, on a batch with two decisions
\* that are not SKIP, whose ranking call failed: the labels are the rule-based ones.
C25_WitnessUnavailable ==
    /\ fn_call.fn = "decide"
    /\ fn_call.args.use_llm_ranking
    /\ fn_call.args.reply.failed
    /\ fn_call.result.skip_count = 1
    /\ fn_call.result.hot_count = 1
    /\ fn_call.result.warm_count = 1

\* The listing has a record, and the record carries an external judgment or
\* the scores and the apply_now that the rules give for the listings, the
\* providers and the clock of this state.
ListingConverged(job) ==
    LET at == FirstIndexOf(job_opps, "job_key", job.job_key, 1)
        r == RuleScores(job, RefreshKeywords(keyword_recs, jobs_raw, talent_raw, utcnow),
                        utcnow)
    IN /\ at # 0
       /\ \/ HasLlmAction(job_opps[at])
          \/ /\ job_opps[at].opportunity_score = r.opportunity_score
             /\ job_opps[at].safety_score = r.safety_score
             /\ job_opps[at].fit_score = r.fit_score
             /\ job_opps[at].apply_now = r.apply_now

Converged == \A i \in 1..Len(jobs_raw) : ListingConverged(jobs_raw[i])

\* C26: eventual convergence.  While the scheduler runs its cycles, a state
\* in which some listing has no record, or a rule-based record that is not
\* what the rules give now, is followed by one in which every listing has a
\* record computed from its current data (as far as the event log of the
\* model reaches).
C26_EventuallyConverges ==
    (~Converged /\ Len(events) < MaxEvents) ~> (Converged \/ Len(events) >= MaxEvents)


----------------------------------------------------------------------------
(* KeywordMetric as a recomputed view                                      *)

\* How many rows of a table carry the keyword now
Carrying(table, keyword) ==
    Len(SelectSeq(table, LAMBDA r : r.keyword = keyword))

\* Every KeywordMetric record counts the rows that carry its keyword now
MetricsMatchTables(recs, jobs_t, talent_t) ==
    \A k \in DOMAIN recs :
        /\ recs[k].demand = Carrying(jobs_t, k)
        /\ recs[k].supply = Carrying(talent_t, k)

\* C27: after every refresh pass, every KeywordMetric record in the Store has
\* demand equal to the number of Listings that carry its keyword now and
\* supply equal to the number of Providers that carry it now.
C27_MetricsFullyRecomputed ==
    [][refresh_metrics_and_opportunities
          => MetricsMatchTables(keyword_recs', jobs_raw', talent_raw')]_vars


----------------------------------------------------------------------------
(* OpportunityRecords and Listings                                         *)

KeysOf(table) == {table[i].job_key : i \in 1..Len(table)}

\* No two records of the table have the same listing key
KeysDistinct(table) ==
    \A i, j \in 1..Len(table) : table[i].job_key = table[j].job_key => i = j

\* A record the rule-based refresh created and one the persistence of an
\* external judgment created
RuleCreated(opp) == ~HasLlmAction(opp) /\ opp.reasons.codes # <<>>
JudgmentCreated(opp) == HasLlmAction(opp) /\ opp.safety_score # 0

\* C28: the Store never holds two OpportunityRecords for the same listing
\* key, every OpportunityRecord's key is the key of an existing Listing, and
\* after every refresh pass every Listing has an OpportunityRecord, also when
\* the rule-based refresh and the persistence of external judgments both
\* create records.
C28_OpportunityOnePerListing ==
    /\ [](KeysDistinct(job_opps) /\ KeysOf(job_opps) \subseteq KeysOf(jobs_raw))
    /\ [][refresh_metrics_and_opportunities
             => KeysOf(jobs_raw') \subseteq KeysOf(job_opps')]_vars

\* Both creators have added records, and a refresh pass has left one record
\* for each of the listings.
C28_Witness ==
    /\ Len(jobs_raw) >= 2
    /\ Len(job_opps) = Len(jobs_raw)
    /\ KeysOf(job_opps) = KeysOf(jobs_raw)
    /\ \E i \in 1..Len(job_opps) : RuleCreated(job_opps[i])
    /\ \E i \in 1..Len(job_opps) :
          JudgmentCreated(job_opps[i]) /\ job_opps[i].last_updated > 0


----------------------------------------------------------------------------
(* The last-seen timestamp                                                 *)

\* Every row of the table before the step is a row of the same key after
\* it, with a last-seen timestamp that is not older.
LastSeenKept(before, after, key_field) ==
    \A i \in 1..Len(before) :
        \E j \in 1..Len(after) :
            /\ after[j][key_field] = before[i][key_field]
            /\ after[j].scraped_at # NoneTime
            /\ before[i].scraped_at # NoneTime => after[j].scraped_at >= before[i].scraped_at

C29_WitnessNoTimestamp ==
    \E i \in 1..Len(jobs_raw) :
        /\ jobs_raw[i].job_key = <<"~01">>
        /\ jobs_raw[i].proposals = <<"50", "+">>
        /\ jobs_raw[i].scraped_at = 50


----------------------------------------------------------------------------
(* A writer whose wait for the permit times out                            *)

\* The step in which the wait of _run_once for the permit times out:
\* DB_WRITE_LOCK.acquire(timeout=...) returns False.
PermitWaitTimesOut ==
    /\ retry_call.pc = "run_once"
    /\ retry_call.write
    /\ DB_WRITE_LOCK
    /\ retry_call' # retry_call

\* C30: a writer that cannot obtain the write permit within its timeout
\* fails with db_write_lock_timeout: it opens no session and does not run
\* its operation, it does not take the permit, and the Store is as it was
\* before the attempt.  A writer called with one attempt, as every writer of
\* the program is, raises the error to its caller after that one wait and
\* does not wait for the permit again.
C30_PermitTimeoutFailsFast ==
    [][PermitWaitTimesOut =>
          /\ retry_call'.pc # "operation"
          /\ retry_call'.last_error = <<WriteLockTimeout>>
          /\ retry_call'.calls = retry_call.calls + 1
          /\ retry_call'.acquired = retry_call.acquired
          /\ ~retry_call'.lock_acquired
          /\ UNCHANGED <<storeVars, DB_WRITE_LOCK>>
          /\ retry_call.max_attempts = 1 =>
                /\ retry_call'.pc = "raised"
                /\ retry_call'.raised = <<WriteLockTimeout>>
                /\ retry_call'.calls = 1]_vars

\* A writer with one attempt has failed with db_write_lock_timeout while
\* another caller holds the permit.
C30_Witness ==
    /\ retry_call.pc = "raised"
    /\ retry_call.write
    /\ retry_call.max_attempts = 1
    /\ retry_call.raised = <<WriteLockTimeout>>
    /\ retry_call.calls = 1
    /\ retry_call.acquired = 0
    /\ DB_WRITE_LOCK
    /\ \E c \in DbCallers : lock_acquired[c]


----------------------------------------------------------------------------
(* Ingestion of one file: rows and record together                         *)

\* The rows parsed from the content of that hash are in the tables
RowsUpserted(path, content_id) ==
    LET parsed == _parse_file(path, FileContent(content_id))
    IN /\ ~parsed.raises
       /\ \A i \in 1..Len(parsed.jobs) :
             LET key == strip(normalize_text(parsed.jobs[i].job_key))
             IN key = <<>> \/ \E j \in 1..Len(jobs_raw) : jobs_raw[j].job_key = key
       /\ \A i \in 1..Len(parsed.talent) :
             LET key == strip(normalize_text(parsed.talent[i].talent_key))
             IN key = <<>> \/ \E j \in 1..Len(talent_raw) : talent_raw[j].talent_key = key

HasRecord(path) ==
    \E i \in 1..Len(ingested_files) : ingested_files[i].file_path = path

\* C31: ingestion of one file is atomic.  In every committed state of the
\* Store a record with hash h for a path exists only if the rows parsed from
\* the content with hash h were upserted, and rows written from a file exist
\* only together with a record for that file.
C31_FileIngestAtomic ==
    /\ \A i \in 1..Len(ingested_files) :
          \E c \in ContentsAt(ingested_files[i].file_path) :
              /\ ingested_files[i].file_hash = _compute_file_hash(c)
              /\ RowsUpserted(ingested_files[i].file_path, c)
    /\ \A j \in 1..Len(jobs_raw) :
          jobs_raw[j].source_file \in Paths => HasRecord(jobs_raw[j].source_file)
    /\ \A j \in 1..Len(talent_raw) :
          talent_raw[j].source_file \in Paths => HasRecord(talent_raw[j].source_file)


----------------------------------------------------------------------------
(* One IngestedFileRecord per path, and files reprocessed on a new hash    *)

\* The scanner commits the file it holds in its session in this step
ScanCommitsFile(s) ==
    /\ scan_proc[s].pc = "flush"
    /\ scan_proc'[s].pc = "loop"

\* C32: there is at most one IngestedFileRecord per file path, records are
\* never deleted, and a scan upserts a file exactly when the Store has no
\* record for its path (the file counted in new_files) or the recorded hash
\* differs from the hash of the content (the file counted in updated_files,
\* the record taking the new hash), also when two scans run side by side.
C32_OneRecordReprocessOnChange ==
    /\ [](\A i, j \in 1..Len(ingested_files) :
             ingested_files[i].file_path = ingested_files[j].file_path => i = j)
    /\ [][\A i \in 1..Len(ingested_files) :
             \E j \in 1..Len(ingested_files') :
                 ingested_files'[j].file_path = ingested_files[i].file_path]_vars
    /\ [][\A s \in Scanners :
             ScanCommitsFile(s) =>
                /\ ~HashUnchanged(ingested_files, scan_proc[s].path,
                                  scan_proc[s].payload_hash)
                /\ HashUnchanged(ingested_files', scan_proc[s].path,
                                 scan_proc[s].payload_hash)
                /\ scan_proc'[s].created - scan_proc[s].created
                      = (IF HasRecord(scan_proc[s].path) THEN 0 ELSE 1)
                /\ scan_proc'[s].updated - scan_proc[s].updated
                      = (IF HasRecord(scan_proc[s].path) THEN 1 ELSE 0)]_vars


----------------------------------------------------------------------------
(* The retry queue: bound, backoff, priority                               *)

\* C33: the retry queue is size-bounded: after every enqueue and every
\* requeue RUN_INGEST_RETRY_QUEUE holds at most RUN_INGEST_RETRY_MAX_QUEUE
\* entries.
C33_RetryQueueBounded ==
    Len(RUN_INGEST_RETRY_QUEUE) <= RUN_INGEST_RETRY_MAX_QUEUE

\* Two runs were submitted and queued, the worker has requeued one of them,
\* and the queue is full with the other.
C33_Witness ==
    /\ Len(RUN_INGEST_RETRY_QUEUE) = RUN_INGEST_RETRY_MAX_QUEUE
    /\ retry_worker.last.result = "requeued"
    /\ last_return.kind = "queued"
    /\ last_return.run_id # retry_worker.last.run_id
    /\ \A i \in DOMAIN RUN_INGEST_RETRY_QUEUE :
          RUN_INGEST_RETRY_QUEUE[i].run_id = last_return.run_id


\* The delay _requeue_ingest_retry gives an entry that has failed k times
\* in a row
DelayAfter(k) ==
    _requeue_ingest_retry(<<>>, "run-1", QueueEntry("run-1", 1, FALSE, 80, k - 1, 90),
                          DatabaseIsLocked.message, 0)[1].next_retry_at

\* C34: per-item exponential backoff.  The worker pops no entry before its
\* next_retry_at; after the k-th failed retry in a row the entry's
\* next_retry_at is the time of the failure plus
\* min(RUN_INGEST_RETRY_MAX_BACKOFF_SECONDS,
\*     RUN_INGEST_RETRY_INTERVAL_SECONDS * 2^min(k, 6)),
\* a delay that does not shrink as k grows and never exceeds the cap.
C34_BackoffPerItem ==
    /\ fn_call.fn = "_pop_ready_ingest_retry_unlocked" /\ fn_call.result.popped # 0
          => fn_call.args.queue[fn_call.result.popped].next_retry_at <= fn_call.args.now
    /\ fn_call.fn = "_requeue_ingest_retry"
          => LET k == fn_call.args.entry.attempts + 1
                 delay == fn_call.result[1].next_retry_at - fn_call.args.now
             IN /\ fn_call.result[1].attempts = k
                /\ delay = Min(RUN_INGEST_RETRY_MAX_BACKOFF_SECONDS,
                               RUN_INGEST_RETRY_INTERVAL_SECONDS * (2 ^ Min(k, 6)))
                /\ delay <= RUN_INGEST_RETRY_MAX_BACKOFF_SECONDS
                /\ k > 1 => DelayAfter(k - 1) <= delay

\* The fifth failed retry in a row: the doubling has reached the cap.
C34_Witness ==
    /\ fn_call.fn = "_requeue_ingest_retry"
    /\ fn_call.args.entry.attempts = 4
    /\ fn_call.result[1].attempts = 5
    /\ fn_call.result[1].next_retry_at
          = fn_call.args.now + RUN_INGEST_RETRY_MAX_BACKOFF_SECONDS

\* The worker found an entry that is not due yet, left it and popped the
\* one that is due.
C34_WitnessNotDue ==
    /\ fn_call.fn = "_pop_ready_ingest_retry_unlocked"
    /\ fn_call.result.popped = 2
    /\ fn_call.args.queue[1].next_retry_at > fn_call.args.now
    /\ Len(fn_call.result.queue) = Len(fn_call.args.queue) - 1


----------------------------------------------------------------------------
(* Rule classification: the five conditions of apply_now.                  *)

\* The proposal count of the listing with the key is below 50 (a listing
\* whose proposals hold no number has no count to reach it).
ProposalsBelowDead(table, key) ==
    LET j == CHOOSE j \in DOMAIN table : table[j].job_key = key
    IN \/ parse_int_value(table[j].proposals) = NoneInt
       \/ parse_int_value(table[j].proposals) < PROPOSALS_DEAD_THRESHOLD

\* The five conditions, on the scores of a record and on its listing.
FiveConditions(entry, table, now) ==
    /\ entry.safety_score >= 7000
    /\ entry.fit_score >= 6000
    /\ entry.opportunity_score >= 5500
    /\ FreshnessOf(table, entry.job_key, now) >= 5000
    /\ ProposalsBelowDead(table, entry.job_key)

\* C35: after a refresh pass a record without external judgment has
\* apply_now set exactly when its safety score is at least 70, its fit score
\* at least 60, its opportunity score at least 55, the freshness of its
\* listing at least 50 and the proposal count of the listing below 50; if
\* any one of the five fails, apply_now is false.
C35_ApplyNowFiveConditions ==
    fn_call.fn = "refresh_metrics_and_opportunities"
    => \A i \in DOMAIN fn_call.result :
         ~HasLlmAction(fn_call.result[i])
         => (fn_call.result[i].apply_now
               <=> FiveConditions(fn_call.result[i], fn_call.args.jobs_raw,
                                  fn_call.args.now))

\* The pass has classified the record of a listing: last_updated is the time
\* of the pass, and whether safety, fit, opportunity, freshness and the
\* proposal count meet the rule is as given.
Classified(safe, fit, opportune, fresh, below) ==
    /\ fn_call.fn = "refresh_metrics_and_opportunities"
    /\ \E i \in DOMAIN fn_call.result :
         /\ ~HasLlmAction(fn_call.result[i])
         /\ fn_call.result[i].last_updated = fn_call.args.now
         /\ (fn_call.result[i].safety_score >= 7000) = safe
         /\ (fn_call.result[i].fit_score >= 6000) = fit
         /\ (fn_call.result[i].opportunity_score >= 5500) = opportune
         /\ (FreshnessOf(fn_call.args.jobs_raw, fn_call.result[i].job_key,
                         fn_call.args.now) >= 5000) = fresh
         /\ ProposalsBelowDead(fn_call.args.jobs_raw, fn_call.result[i].job_key) = below
         /\ fn_call.result[i].apply_now = (safe /\ fit /\ opportune /\ fresh /\ below)

\* A record classified with all five conditions met: apply_now is set.
C35_Witness == Classified(TRUE, TRUE, TRUE, TRUE, TRUE)

\* A listing with 30 proposals scraped more than 120 hours ago: only the
\* freshness fails, and apply_now, set before the pass, is cleared.
C35_WitnessStale ==
    /\ Classified(TRUE, TRUE, TRUE, FALSE, TRUE)
    /\ fn_call.args.job_opps # <<>>
    /\ fn_call.args.job_opps[1].apply_now

\* Only the safety, only the fit, only the opportunity fails.
C35_WitnessUnsafe == Classified(FALSE, TRUE, TRUE, TRUE, TRUE)
C35_WitnessUnfit == Classified(TRUE, FALSE, TRUE, TRUE, TRUE)
C35_WitnessNoOpportunity == Classified(TRUE, TRUE, FALSE, TRUE, TRUE)

\* A listing with 50 proposals or more: its freshness is below 50 as well.
C35_WitnessFilled == Classified(TRUE, TRUE, TRUE, FALSE, FALSE)


----------------------------------------------------------------------------
(* DecisionEngine.decide: labels, counts and order of a batch.             *)

PriorityLabels == {"HOT", "WARM", "COLD"}

\* A batch is ordered HOT, then WARM, then COLD, by descending composite
\* score within a label, and ranked 1..n.
OrderedByPriority(decisions) ==
    /\ \A i \in DOMAIN decisions : decisions[i].priority_rank = i
    /\ \A i, j \in DOMAIN decisions :
         i < j => \/ priority_order(decisions[i].priority_label)
                       < priority_order(decisions[j].priority_label)
                  \/ /\ decisions[i].priority_label = decisions[j].priority_label
                     /\ decisions[i].composite_score >= decisions[j].composite_score

\* C36: every decision that decide returns carries one priority label out of
\* HOT, WARM and COLD, so that hot_count + warm_count + cold_count is
\* total_jobs; a decision whose action is SKIP is COLD, whatever the
\* competition; the decisions are ordered HOT, WARM, COLD, by descending
\* composite score within a label, with priority_rank 1..n.
C36_DecideLabelsCountsOrder ==
    fn_call.fn = "decide"
    => /\ \A i \in DOMAIN fn_call.result.decisions :
            /\ fn_call.result.decisions[i].priority_label \in PriorityLabels
            /\ fn_call.result.decisions[i].recommended_action = "SKIP"
                  => fn_call.result.decisions[i].priority_label = "COLD"
       /\ fn_call.result.hot_count + fn_call.result.warm_count
             + fn_call.result.cold_count = fn_call.result.total_jobs
       /\ fn_call.result.total_jobs = Len(fn_call.args.analyses)
       /\ OrderedByPriority(fn_call.result.decisions)


----------------------------------------------------------------------------
(* A final payload in the retry queue, under interleavings.                *)

RunIds == {"run-1", "run-2"}

\* The run has a final entry waiting: in the queue, or popped and in the
\* hands of the worker.
FinalQueued(q, run_id) ==
    \E i \in DOMAIN q : q[i].run_id = run_id /\ q[i].is_final

FinalInHand(worker, run_id) ==
    /\ worker.pc = "persist"
    /\ worker.entry[1].run_id = run_id
    /\ worker.entry[1].is_final

\* This step persists a final payload of the run: the worker's retry of a
\* final entry returned, or ingest_run persisted a final submission.
FinalPersistedFor(run_id) ==
    \/ /\ FinalInHand(retry_worker, run_id)
       /\ retry_worker'.pc = "wait"
       /\ retry_worker'.last.result = "persisted"
    \/ /\ FinalPersisted
       /\ last_return'.run_id = run_id

\* C37: once a final payload of a run has been enqueued for retry, the entry
\* of the run in the retry queue stays final, under every interleaving of
\* ingest_run and the retry worker, until a final payload of the run has
\* been persisted: no step replaces the final entry by one that is not
\* final, and none drops it.
C37_FinalPayloadNeverLost ==
    [][\A run_id \in RunIds :
         FinalQueued(RUN_INGEST_RETRY_QUEUE, run_id)
         => \/ FinalQueued(RUN_INGEST_RETRY_QUEUE', run_id)
            \/ FinalInHand(retry_worker', run_id)
            \/ FinalPersistedFor(run_id)]_vars


----------------------------------------------------------------------------
(* Enqueueing a run that is already queued.                                *)

\* The entries of the run in the queue.
EntriesOfRun(q, run_id) == SelectSeq(q, LAMBDA e : e.run_id = run_id)

\* This step is a call of ingest_run that went to _enqueue_run_ingest_retry
\* while the run had an entry in the queue.
EnqueuesQueuedRun ==
    /\ next_sid' # next_sid
    /\ last_return'.kind = "queued"
    /\ EntriesOfRun(RUN_INGEST_RETRY_QUEUE, last_return'.run_id) # <<>>

\* The submission of the step is final.
SubmissionIsFinal == Lower(strip(last_return'.status)) \in FINAL_RUN_STATUSES

\* C38: enqueueing a run that is already queued leaves one entry of the run:
\* a payload that is not final and has fewer rows in total than the queued
\* one is discarded; otherwise the payload of the entry is replaced by the
\* new one, the entry keeps its queued_at and its attempts, its
\* next_retry_at is the time of the call, and is_final, once true, stays true.
C38_EnqueueQueuedRun ==
    [][EnqueuesQueuedRun
       => LET old == EntriesOfRun(RUN_INGEST_RETRY_QUEUE, last_return'.run_id)
              new == EntriesOfRun(RUN_INGEST_RETRY_QUEUE', last_return'.run_id)
          IN /\ Len(old) = 1
             /\ Len(new) = 1
             /\ IF ~SubmissionIsFinal /\ old[1].stats.total > last_return'.total
                THEN new[1] = old[1]
                ELSE /\ new[1].payload.sid = last_return'.sid
                     /\ new[1].stats.total = last_return'.total
                     /\ new[1].queued_at = old[1].queued_at
                     /\ new[1].attempts = old[1].attempts
                     /\ new[1].next_retry_at = clock
                     /\ new[1].is_final = (old[1].is_final \/ SubmissionIsFinal)]_vars

\* The entry of the last submission, which was queued.
QueuedEntry ==
    EntriesOfRun(RUN_INGEST_RETRY_QUEUE, last_return.run_id)

\* A run whose entry had failed one retry was submitted again later and
\* queued: the entry holds the new payload, its attempts and its queued_at
\* are the old ones, and it is due at once.
C38_Witness ==
    /\ last_return.kind = "queued"
    /\ Len(QueuedEntry) = 1
    /\ QueuedEntry[1].payload.sid = last_return.sid
    /\ QueuedEntry[1].attempts = 1
    /\ QueuedEntry[1].queued_at < last_return.at
    /\ QueuedEntry[1].next_retry_at = last_return.at

\* A smaller payload that is not final was discarded.
C38_WitnessDiscarded ==
    /\ last_return.kind = "queued"
    /\ Len(QueuedEntry) = 1
    /\ QueuedEntry[1].payload.sid # last_return.sid
    /\ QueuedEntry[1].stats.total > last_return.total

\* A larger payload that is not final replaced a final one: the entry is
\* still final.
C38_WitnessFinalSticks ==
    /\ last_return.kind = "queued"
    /\ Len(QueuedEntry) = 1
    /\ QueuedEntry[1].payload.sid = last_return.sid
    /\ Lower(strip(last_return.status)) \notin FINAL_RUN_STATUSES
    /\ QueuedEntry[1].is_final


----------------------------------------------------------------------------
(* The write permit is held only while a write operation executes.         *)

\* The callers that are inside operation(db) with the permit taken, the call
\* of run_with_retry among them.
PermitHolders ==
    {c \in DbCallers : db_pc[c] = "operation" /\ lock_acquired[c]}
    \cup (IF retry_call.pc = "operation" /\ retry_call.lock_acquired
          THEN {"run_with_retry"} ELSE {})

\* C39: the write permit is held only while a write operation executes.  It
\* is taken exactly when one caller is inside its operation with the permit;
\* a caller whose operation has returned or raised no longer has it, and
\* the call of run_with_retry does not have it while it sleeps between two
\* attempts: whenever no write operation runs the permit is free for a
\* writer that waits.
C39_PermitOnlyWhileWriting ==
    /\ DB_WRITE_LOCK <=> Cardinality(PermitHolders) = 1
    /\ Cardinality(PermitHolders) <= 1
    /\ \A c \in DbCallers : db_pc[c] # "operation" => ~lock_acquired[c]
    /\ retry_call.pc # "operation" => ~retry_call.lock_acquired

\* A writer had the permit, its operation raised an error that is retried,
\* and it sleeps before its next attempt: the permit is free while another
\* writer waits for it.
C39_Witness ==
    /\ retry_call.pc = "run_once"
    /\ retry_call.write
    /\ retry_call.attempt >= 1
    /\ retry_call.acquired >= 1
    /\ ~DB_WRITE_LOCK
    /\ \E c \in DbCallers : db_pc[c] = "acquire"

\* The operation of a writer raised an error that is not retried: the
\* permit is free.
C39_WitnessRaised ==
    /\ retry_call.pc = "raised"
    /\ retry_call.write
    /\ retry_call.acquired >= 1
    /\ ~DB_WRITE_LOCK


----------------------------------------------------------------------------
(* Priority of final payloads in the retry queue.                          *)

\* The entries of a queue that are ready at now.
ReadyAt(q, now) == {i \in DOMAIN q : q[i].next_retry_at <= now}

\* The run_ids of a queue.
RunIdsOf(q) == {q[i].run_id : i \in DOMAIN q}

\* The entry of the run in the queue.
EntryOf(q, run_id) == q[CHOOSE i \in DOMAIN q : q[i].run_id = run_id]

\* The worker's pop took, among the ready entries, a final one before any
\* that is not final and, within a class, the oldest.
PopsByPriority(q, now, popped) ==
    IF ReadyAt(q, now) = {} THEN popped = 0
    ELSE /\ popped \in ReadyAt(q, now)
         /\ \A j \in ReadyAt(q, now) :
              /\ q[j].is_final => q[popped].is_final
              /\ q[j].is_final = q[popped].is_final
                    => q[popped].queued_at <= q[j].queued_at

\* A trim left the queue within its capacity, evicted no more than it had to,
\* an entry that is not final only if no older one that is not final stays,
\* and a final entry only if none that is not final stays and no older final
\* one stays.
TrimsByPriority(q, trimmed) ==
    /\ RunIdsOf(trimmed) \subseteq RunIdsOf(q)
    /\ \A r \in RunIdsOf(trimmed) : EntryOf(trimmed, r) = EntryOf(q, r)
    /\ Len(trimmed) = Min(Len(q), RUN_INGEST_RETRY_MAX_QUEUE)
    /\ \A evicted \in RunIdsOf(q) \ RunIdsOf(trimmed) :
         \A kept \in RunIdsOf(trimmed) :
            /\ EntryOf(q, evicted).is_final => EntryOf(q, kept).is_final
            /\ EntryOf(q, evicted).is_final = EntryOf(q, kept).is_final
                  => EntryOf(q, evicted).queued_at <= EntryOf(q, kept).queued_at

\* C40: final payloads take priority in the retry queue.  Among the entries
\* that are ready the worker pops a final one before any that is not final
\* and, within a class, the one with the oldest queued_at; trimming a queue
\* over its capacity evicts entries that are not final, oldest first, and a
\* final entry only when no entry that is not final remains.
C40_FinalFirst ==
    /\ fn_call.fn = "_pop_ready_ingest_retry_unlocked"
          => PopsByPriority(fn_call.args.queue, fn_call.args.now, fn_call.result.popped)
    /\ fn_call.fn = "_trim_ingest_retry_queue_unlocked"
          => TrimsByPriority(fn_call.args.queue, fn_call.result)

\* The worker popped a final entry although an entry that is not final,
\* queued earlier, was ready too.
C40_Witness ==
    /\ fn_call.fn = "_pop_ready_ingest_retry_unlocked"
    /\ fn_call.result.popped # 0
    /\ fn_call.args.queue[fn_call.result.popped].is_final
    /\ \E j \in ReadyAt(fn_call.args.queue, fn_call.args.now) :
         /\ ~fn_call.args.queue[j].is_final
         /\ fn_call.args.queue[j].queued_at
               < fn_call.args.queue[fn_call.result.popped].queued_at

\* A trim evicted the entry that is not final and kept the final one, which
\* had been queued earlier.
C40_WitnessTrim ==
    /\ fn_call.fn = "_trim_ingest_retry_queue_unlocked"
    /\ Len(fn_call.args.queue) > Len(fn_call.result)
    /\ \E evicted \in RunIdsOf(fn_call.args.queue) \ RunIdsOf(fn_call.result) :
         \E kept \in RunIdsOf(fn_call.result) :
            /\ ~EntryOf(fn_call.args.queue, evicted).is_final
            /\ EntryOf(fn_call.args.queue, kept).is_final
            /\ EntryOf(fn_call.args.queue, kept).queued_at
                  < EntryOf(fn_call.args.queue, evicted).queued_at

\* A trim of a queue of final entries evicted the oldest of them.
C40_WitnessTrimFinal ==
    /\ fn_call.fn = "_trim_ingest_retry_queue_unlocked"
    /\ Len(fn_call.args.queue) > Len(fn_call.result)
    /\ \A i \in DOMAIN fn_call.args.queue : fn_call.args.queue[i].is_final
    /\ \E evicted \in RunIdsOf(fn_call.args.queue) \ RunIdsOf(fn_call.result) :
         \E kept \in RunIdsOf(fn_call.result) :
            EntryOf(fn_call.args.queue, evicted).queued_at
               < EntryOf(fn_call.args.queue, kept).queued_at

====
